---- MODULE Spec2Model ----
(***************************************************************************)
(* Order workflow, role-gated request handlers and tenant guards of the    *)
(* maquila application (src/core).  The persisted tables are the state;    *)
(* every request handler is one action; the principal issuing a request    *)
(* is an input of the action.                                              *)
(*                                                                         *)
(* Time: `clock` is the value timezone.now() returns next.  Every stage    *)
(* stamp of an Order FSM method consumes one tick, so that two stamps are  *)
(* never equal; Company.suspend reads the clock without consuming a tick.  *)
(* Fields of the models that no handler reads back (names, addresses,      *)
(* packaging, notes, ...) are not part of the state.                       *)
(***************************************************************************)
EXTENDS Integers, FiniteSets, Sequences, TLC

\* ---------------------------------------------------------------- bounds
MaxOrders  == 1
MaxClients == 1
MaxClock   == 6
MaxEdits   == 1
MaxReqs    == 2
MaxBatch   == 2

\* ------------------------------------------------------------ vocabulary
Companies == {"A", "B"}
NoCompany == "none"
Null      == 0

Roles == {"super_admin", "admin_company", "aux_registro", "aux_tostion",
          "aux_produccion", "aux_facturacion"}

STATE_CHOICES == {"registered", "in_toasting", "toasting_complete", "in_production",
                  "ready_for_billing", "billed", "delivered", "cancelled"}

STATUS_CHOICES == {"active", "suspended", "cancelled"}

PROCESS_STATUS_CHOICES == {"received", "started", "monitoring", "completed"}

steps == {"reception", "setup", "monitoring", "completion"}

OrderIds  == 1..MaxOrders
ClientIds == 1..MaxClients
Reqs      == 1..MaxReqs

\* The principals that issue requests: User rows (role, company, is_superuser).
\* Users of tenant A in every tenant role, a user of the other tenant, and the
\* two kinds of super_admin account without a company: one made by
\* createsuperuser (is_superuser set) and one made through UserForm (not set).
User(r, c, su) == [role |-> r, company |-> c, is_superuser |-> su]
NoUser == User("none", NoCompany, FALSE)
Principals ==
    { User(r, "A", FALSE) : r \in Roles \ {"super_admin"} }
    \cup { User("admin_company", "B", FALSE),
           User("super_admin", NoCompany, TRUE),
           User("super_admin", NoCompany, FALSE) }

\* ------------------------------------------------------------------ state
VARIABLES
    company,     \* Company rows: status, suspended_at, suspension_reason
    clients,     \* Client rows: exists, company
    orders,      \* Order rows
    toasting,    \* ToastingProcess rows, keyed by their order (one-to-one)
    production,  \* ProductionProcess rows, keyed by their order (one-to-one)
    invoice,     \* Invoice rows, keyed by their order (one-to-one)
    audit,       \* ActivityLog rows related to an order, counted per action
    clock,       \* next value of timezone.now()
    last,        \* the request handled last: kind, user, order
    result,      \* its outcome: status, ActivityLog rows appended, count reported
    inflight,    \* requests between their read and their write
    objects      \* Model.objects of each tenant-scoped model (a class attribute)

vars == <<company, clients, orders, toasting, production, invoice, audit,
          clock, last, result, inflight, objects>>

db == <<company, clients, orders, toasting, production, invoice, audit, clock>>

AuditActions == {"maquila_create", "maquila_update", "toasting_start",
                 "toasting_complete", "production_complete", "invoice_create"}

NoOrder == [exists |-> FALSE, company |-> NoCompany, client |-> Null,
            order_number |-> Null, state |-> "registered",
            toasting_started_at |-> Null, toasting_completed_at |-> Null,
            production_started_at |-> Null, production_completed_at |-> Null,
            billed_at |-> Null, delivered_at |-> Null,
            toasted_by |-> NoUser, produced_by |-> NoUser,
            billed_by |-> NoUser, delivered_by |-> NoUser]

NoToasting   == [exists |-> FALSE, process_status |-> "received"]
NoProduction == [exists |-> FALSE, processed_by |-> NoUser]
NoInvoice    == [exists |-> FALSE, company |-> NoCompany, created_by |-> NoUser]
NoClient     == [exists |-> FALSE, company |-> NoCompany]
\* The models with a company field whose rows the tables above hold, and the
\* manager Django gives each; a patched manager is the sequence of the
\* companies of its CompanyFilteredManager wrappers, outermost first.
TenantModels == {"Client", "Order"}
original_manager == <<>>

Idle         == [pc |-> "idle", user |-> NoUser, order |-> Null, copy |-> NoOrder,
                 status |-> "none"]

Init ==
    /\ company = [c \in Companies |->
                    [status |-> "active", suspended_at |-> Null, suspension_reason |-> ""]]
    /\ clients = [c \in ClientIds |-> NoClient]
    /\ orders = [o \in OrderIds |-> NoOrder]
    /\ toasting = [o \in OrderIds |-> NoToasting]
    /\ production = [o \in OrderIds |-> NoProduction]
    /\ invoice = [o \in OrderIds |-> NoInvoice]
    /\ audit = [o \in OrderIds |-> [a \in AuditActions |-> 0]]
    /\ clock = 1
    /\ last = [kind |-> "none", user |-> NoUser, order |-> Null]
    /\ result = [status |-> "none", appended |-> 0, updated |-> 0]
    /\ inflight = [r \in Reqs |-> Idle]
    /\ objects = [m \in TenantModels |-> original_manager]

\* ---------------------------------------------------------- tenant guards
is_active(c) == company[c].status = "active"

HasCompany(u) == u.company # NoCompany

\* A middleware that does not look at the company's status.
TenantMiddleware_mut(u) ==
    IF HasCompany(u) THEN "pass"
    ELSE IF ~u.is_superuser THEN "mw_no_company" ELSE "pass"

\* TenantMiddleware.__call__: "pass" when the request reaches the view.
TenantMiddleware(u) ==
    IF HasCompany(u)
    THEN IF ~is_active(u.company) THEN "mw_company_inactive" ELSE "pass"
    ELSE IF ~u.is_superuser THEN "mw_no_company" ELSE "pass"

\* rol_requerido(*roles_permitidos): "pass" when the view function runs.
rol_requerido(u, roles_permitidos) ==
    IF ~HasCompany(u) /\ u.role # "super_admin" THEN "dec_no_company"
    ELSE IF HasCompany(u) /\ ~is_active(u.company) THEN "dec_company_inactive"
    ELSE IF u.role \notin roles_permitidos THEN "role_denied"
    ELSE "pass"

\* The middleware runs first, then the decorator of the view's dispatch.
Guards(u, roles_permitidos) ==
    IF TenantMiddleware(u) # "pass" THEN TenantMiddleware(u)
    ELSE rol_requerido(u, roles_permitidos)

TenantRejections == {"mw_company_inactive", "mw_no_company",
                     "dec_no_company", "dec_company_inactive"}

\* ------------------------------------------------------------- Order model
\* A table that lets a delivered order be cancelled.
valid_transitions_mut(state) ==
    CASE state = "registered"        -> {"in_toasting", "cancelled"}
      [] state = "in_toasting"       -> {"toasting_complete", "cancelled"}
      [] state = "toasting_complete" -> {"in_production", "cancelled"}
      [] state = "in_production"     -> {"ready_for_billing", "cancelled"}
      [] state = "ready_for_billing" -> {"billed", "cancelled"}
      [] state = "billed"            -> {"delivered", "cancelled"}
      [] state = "delivered"         -> {"cancelled"}
      [] state = "cancelled"         -> {}
      [] OTHER                       -> {}

\* Order.can_transition_to
valid_transitions(state) ==
    CASE state = "registered"        -> {"in_toasting", "cancelled"}
      [] state = "in_toasting"       -> {"toasting_complete", "cancelled"}
      [] state = "toasting_complete" -> {"in_production", "cancelled"}
      [] state = "in_production"     -> {"ready_for_billing", "cancelled"}
      [] state = "ready_for_billing" -> {"billed", "cancelled"}
      [] state = "billed"            -> {"delivered", "cancelled"}
      [] state = "delivered"         -> {}
      [] state = "cancelled"         -> {}
      [] OTHER                       -> {}

can_transition_to(self, new_state) == new_state \in valid_transitions(self.state)

\* The @transition decorators: source states and target of each FSM method.
TransitionMethods == {"start_toasting", "complete_toasting", "start_production",
                      "complete_production", "bill_order", "deliver_order",
                      "cancel_order"}

\* Transitions whose cancel_order also leaves the cancelled state.
source_mut(m) ==
    CASE m = "start_toasting"      -> {"registered"}
      [] m = "complete_toasting"   -> {"in_toasting"}
      [] m = "start_production"    -> {"toasting_complete"}
      [] m = "complete_production" -> {"in_production"}
      [] m = "bill_order"          -> {"ready_for_billing"}
      [] m = "deliver_order"       -> {"billed"}
      [] m = "cancel_order"        -> {"registered", "in_toasting", "toasting_complete",
                                       "in_production", "ready_for_billing", "billed",
                                       "cancelled"}

source(m) ==
    CASE m = "start_toasting"      -> {"registered"}
      [] m = "complete_toasting"   -> {"in_toasting"}
      [] m = "start_production"    -> {"toasting_complete"}
      [] m = "complete_production" -> {"in_production"}
      [] m = "bill_order"          -> {"ready_for_billing"}
      [] m = "deliver_order"       -> {"billed"}
      [] m = "cancel_order"        -> {"registered", "in_toasting", "toasting_complete",
                                       "in_production", "ready_for_billing", "billed"}

\* Transitions whose start_toasting skips the toasting stage.
target_mut(m) ==
    CASE m = "start_toasting"      -> "toasting_complete"
      [] m = "complete_toasting"   -> "toasting_complete"
      [] m = "start_production"    -> "in_production"
      [] m = "complete_production" -> "ready_for_billing"
      [] m = "bill_order"          -> "billed"
      [] m = "deliver_order"       -> "delivered"
      [] m = "cancel_order"        -> "cancelled"

target(m) ==
    CASE m = "start_toasting"      -> "in_toasting"
      [] m = "complete_toasting"   -> "toasting_complete"
      [] m = "start_production"    -> "in_production"
      [] m = "complete_production" -> "ready_for_billing"
      [] m = "bill_order"          -> "billed"
      [] m = "deliver_order"       -> "delivered"
      [] m = "cancel_order"        -> "cancelled"

\* The method bodies: what each writes besides the state.
start_toasting(self, now)      == [self EXCEPT !.toasting_started_at = now]
complete_toasting(self, now)   == [self EXCEPT !.toasting_completed_at = now]
start_production(self, now)    == [self EXCEPT !.production_started_at = now]
complete_production(self, now) == [self EXCEPT !.production_completed_at = now]
bill_order(self, now)          == [self EXCEPT !.billed_at = now]
deliver_order(self, now)       == [self EXCEPT !.delivered_at = now]
\* A cancel_order that stamps a time of its own.
cancel_order_mut(self, now)    == [self EXCEPT !.delivered_at = now]

cancel_order(self, now)        == self

body(self, m, now) ==
    CASE m = "start_toasting"      -> start_toasting(self, now)
      [] m = "complete_toasting"   -> complete_toasting(self, now)
      [] m = "start_production"    -> start_production(self, now)
      [] m = "complete_production" -> complete_production(self, now)
      [] m = "bill_order"          -> bill_order(self, now)
      [] m = "deliver_order"       -> deliver_order(self, now)
      [] m = "cancel_order"        -> cancel_order(self, now)

\* django_fsm.transition: the call raises TransitionNotAllowed unless the
\* instance's state is a source of the method; otherwise the body runs and the
\* state becomes the target.
TransitionAllowed(self, m) == self.state \in source(m)

\* Transitions whose complete_production leaves the state as it was.
transition_mut(self, m, now) ==
    IF m = "complete_production" THEN body(self, m, now)
    ELSE [body(self, m, now) EXCEPT !.state = target(m)]

transition(self, m, now) == [body(self, m, now) EXCEPT !.state = target(m)]

\* timezone.now() is read by every method but cancel_order.
ReadsClock(m) == m # "cancel_order"

\* Order.generate_order_number: one more than the sequence of the latest number
\* of the company for today (all orders of a run share the date), 1 when none.
generate_order_number(comp) ==
    LET todays == { orders[o].order_number :
                      o \in { x \in DOMAIN orders :
                                 orders[x].exists /\ orders[x].company = comp } }
    IN  IF todays = {} THEN 1
        ELSE (CHOOSE n \in todays : \A k \in todays : k <= n) + 1

\* A save that numbers the order anew every time.
Order_save_mut(self) == [self EXCEPT !.order_number = generate_order_number(self.company)]

\* Order.save: the number is generated only when the instance has none.
Order_save(self) ==
    IF self.order_number = Null
    THEN [self EXCEPT !.order_number = generate_order_number(self.company)]
    ELSE self

\* A lookup that does not filter by the user's company.
OrderGet_mut(u, o, state) ==
    /\ orders[o].exists
    /\ orders[o].state = state

\* A lookup that does not filter by the state of the order.
OrderGet_anystate(u, o, state) ==
    /\ orders[o].exists
    /\ orders[o].company = u.company

\* Order.objects.get(id=order_id, company=request.user.company, state=...)
OrderGet(u, o, state) ==
    /\ orders[o].exists
    /\ orders[o].company = u.company
    /\ orders[o].state = state

\* -------------------------------------------------- ToastingProcess model
\* A completion check that accepts a process that has only been started.
can_complete_toasting_mut(self) == self.process_status \in {"started", "monitoring"}

can_start_toasting(self)    == self.process_status = "received"
can_monitor_toasting(self)  == self.process_status \in {"started", "monitoring"}
can_complete_toasting(self) == self.process_status = "monitoring"

start_process(self) ==
    IF can_start_toasting(self) THEN [self EXCEPT !.process_status = "started"] ELSE self

update_monitoring(self) ==
    IF can_monitor_toasting(self) THEN [self EXCEPT !.process_status = "monitoring"]
    ELSE self

complete_process(self) ==
    IF can_complete_toasting(self) THEN [self EXCEPT !.process_status = "completed"]
    ELSE self

\* ToastingProcess.objects.get_or_create(order=maquila, defaults=...)
get_or_create_toasting(o) ==
    IF toasting[o].exists THEN toasting[o]
    ELSE [exists |-> TRUE, process_status |-> "received"]

\* ------------------------------------------------------ responses, audit
Respond(kind, u, o, status, appended, updated) ==
    /\ last' = [kind |-> kind, user |-> u, order |-> o]
    /\ result' = [status |-> status, appended |-> appended, updated |-> updated]

\* A request that ends without touching the tables.
Reject(kind, u, o, status) ==
    /\ Respond(kind, u, o, status, 0, 0)
    /\ UNCHANGED <<db, inflight, objects>>

\* ActivityLog.objects.create(..., action=a, related_order=o)
Logged(o, a) == [audit EXCEPT ![o][a] = @ + 1]

\* Decorators that admit the registration assistant to the toasting views and
\* the toasting assistant to the production views.
TostionRoles_mut == {"aux_registro", "admin_company", "super_admin"}
ProduccionRoles_mut == {"aux_produccion", "aux_tostion", "admin_company", "super_admin"}

\* The roles each view's dispatch is decorated with.
RegistroRoles    == {"aux_registro", "admin_company", "super_admin"}
TostionRoles     == {"aux_tostion", "admin_company", "super_admin"}
ProduccionRoles  == {"aux_produccion", "admin_company", "super_admin"}
FacturacionRoles == {"aux_facturacion", "admin_company", "super_admin"}

\* ---------------------------------------------------------------- handlers
\* ClienteCreateView (POST): ClienteForm.save assigns the user's company; a
\* user without a company leaves the foreign key unset and the save raises.
ClienteCreate(u, c, valid) ==
    LET g == Guards(u, RegistroRoles) IN
    IF g # "pass" THEN Reject("cliente_create", u, Null, g)
    ELSE IF ~valid THEN Reject("cliente_create", u, Null, "form_invalid")
    ELSE IF ~HasCompany(u) THEN Reject("cliente_create", u, Null, "error")
    ELSE /\ ~clients[c].exists
         /\ \A k \in ClientIds : k < c => clients[k].exists
         /\ clients' = [clients EXCEPT ![c] = [exists |-> TRUE, company |-> u.company]]
         /\ Respond("cliente_create", u, Null, "ok", 1, 0)
         /\ UNCHANGED <<company, orders, toasting, production, invoice, audit, clock,
                        inflight, objects>>

\* A form that offers every client to every user.
ClientChoiceValid_mut(u, c) ==
    /\ HasCompany(u)
    /\ clients[c].exists

\* PedidoForm: the client field's queryset is the clients of the user's company
\* (empty for a user without a company), and clean_client checks it again.
ClientChoiceValid(u, c) ==
    /\ HasCompany(u)
    /\ clients[c].exists
    /\ clients[c].company = u.company

\* MaquilaCreateView (POST): form.save() inserts the order (state registered)
\* and one ActivityLog row.
MaquilaCreate(u, o, c, valid) ==
    LET g == Guards(u, RegistroRoles) IN
    IF g # "pass" THEN Reject("maquila_create", u, Null, g)
    ELSE IF ~valid \/ ~ClientChoiceValid(u, c)
         THEN Reject("maquila_create", u, Null, "form_invalid")
    ELSE /\ ~orders[o].exists
         /\ \A k \in OrderIds : k < o => orders[k].exists
         /\ orders' = [orders EXCEPT ![o] =
                Order_save([NoOrder EXCEPT !.exists = TRUE, !.company = u.company,
                                           !.client = c])]
         /\ audit' = Logged(o, "maquila_create")
         /\ Respond("maquila_create", u, o, "ok", 1, 0)
         /\ UNCHANGED <<company, clients, toasting, production, invoice, clock, inflight, objects>>

\* MaquilaUpdateView (POST): get_queryset filters the orders of the user's
\* company; form.save() rewrites client and company and saves the order.
MaquilaUpdate(u, o, c, valid) ==
    LET g == Guards(u, RegistroRoles) IN
    IF g # "pass" THEN Reject("maquila_update", u, o, g)
    ELSE IF ~(orders[o].exists /\ orders[o].company = u.company)
         THEN Reject("maquila_update", u, o, "not_found")
    ELSE IF ~valid \/ ~ClientChoiceValid(u, c)
         THEN Reject("maquila_update", u, o, "form_invalid")
    ELSE /\ audit[o]["maquila_update"] < MaxEdits
         /\ orders' = [orders EXCEPT ![o] =
                Order_save([orders[o] EXCEPT !.company = u.company, !.client = c])]
         /\ audit' = Logged(o, "maquila_update")
         /\ Respond("maquila_update", u, o, "ok", 1, 0)
         /\ UNCHANGED <<company, clients, toasting, production, invoice, clock, inflight, objects>>

\* StartToastingView.post, after the read: start_toasting() on the instance
\* read, toasted_by, save() of every field, one ActivityLog row.
StartToastingWrite(u, o, copy) ==
    /\ clock <= MaxClock
    /\ orders' = [orders EXCEPT ![o] =
            Order_save([transition(copy, "start_toasting", clock) EXCEPT !.toasted_by = u])]
    /\ audit' = Logged(o, "toasting_start")
    /\ clock' = clock + 1
    /\ UNCHANGED <<company, clients, toasting, production, invoice>>

\* StartToastingView.post as one step.
StartToasting(u, o) ==
    LET g == Guards(u, TostionRoles) IN
    IF g # "pass" THEN Reject("start_toasting_post", u, o, g)
    ELSE IF ~OrderGet(u, o, "registered") THEN Reject("start_toasting_post", u, o, "not_found")
    ELSE /\ StartToastingWrite(u, o, orders[o])
         /\ Respond("start_toasting_post", u, o, "ok", 1, 0)
         /\ UNCHANGED <<inflight, objects>>

\* TostionCreateView.get: renders the step form; creates the ToastingProcess
\* row when the order has none.
TostionGet(u, o) ==
    LET g == Guards(u, TostionRoles) IN
    IF g # "pass" THEN Reject("tostion_get", u, o, g)
    ELSE IF ~OrderGet(u, o, "in_toasting") THEN Reject("tostion_get", u, o, "not_found")
    ELSE /\ toasting' = [toasting EXCEPT ![o] = get_or_create_toasting(o)]
         /\ Respond("tostion_get", u, o, "ok", 0, 0)
         /\ UNCHANGED <<company, clients, orders, production, invoice, audit, clock,
                        inflight, objects>>

\* TostionCreateView.post and form_valid.  get_or_create runs before the form
\* is validated and outside the atomic block; an exception inside the block
\* rolls the block back.  has_temperature and has_processed tell whether the
\* optional fields current_temperature_celsius and processed_quantity_kg carry
\* a value.
TostionPost(u, o, step, valid, has_temperature, has_processed) ==
    LET g  == Guards(u, TostionRoles)
        tp == get_or_create_toasting(o)
        created == [toasting EXCEPT ![o] = tp]
        kind == "tostion_post"
    IN
    IF g # "pass" THEN Reject(kind, u, o, g)
    ELSE IF ~OrderGet(u, o, "in_toasting") THEN Reject(kind, u, o, "not_found")
    ELSE IF ~valid
         THEN /\ toasting' = created
              /\ Respond(kind, u, o, "form_invalid", 0, 0)
              /\ UNCHANGED <<company, clients, orders, production, invoice, audit, clock,
                             inflight, objects>>
    ELSE IF step = "completion"
            /\ ~(can_complete_toasting(tp) /\ ~has_processed)
         THEN /\ clock <= MaxClock
              /\ toasting' = [toasting EXCEPT ![o] = complete_process(tp)]
              /\ orders' = [orders EXCEPT ![o] =
                    Order_save([transition(orders[o], "complete_toasting", clock)
                                   EXCEPT !.toasted_by = u])]
              /\ audit' = Logged(o, "toasting_complete")
              /\ clock' = clock + 1
              /\ Respond(kind, u, o, "ok", 1, 0)
              /\ UNCHANGED <<company, clients, production, invoice, inflight, objects>>
    ELSE IF step \in {"reception", "setup", "monitoring"}
         THEN /\ toasting' = [toasting EXCEPT ![o] =
                    CASE step = "reception"  -> [tp EXCEPT !.process_status = "received"]
                      [] step = "setup"      -> start_process(tp)
                      [] step = "monitoring" ->
                            IF has_temperature THEN update_monitoring(tp) ELSE tp]
              /\ Respond(kind, u, o, "ok", 0, 0)
              /\ UNCHANGED <<company, clients, orders, production, invoice, audit, clock,
                             inflight, objects>>
    ELSE \* completion without a processed quantity while monitoring (None / Decimal),
         \* or a step outside the list (steps.index raises): rolled back
         /\ toasting' = created
         /\ Respond(kind, u, o, "error", 0, 0)
         /\ UNCHANGED <<company, clients, orders, production, invoice, audit, clock,
                        inflight, objects>>

\* ProduccionCreateView.post and form_valid.
ProduccionCreate(u, o, valid) ==
    LET g == Guards(u, ProduccionRoles)
        kind == "produccion_create"
    IN
    IF g # "pass" THEN Reject(kind, u, o, g)
    ELSE IF ~OrderGet(u, o, "in_production") THEN Reject(kind, u, o, "not_found")
    ELSE IF production[o].exists THEN Reject(kind, u, o, "already_exists")
    ELSE IF ~valid THEN Reject(kind, u, o, "form_invalid")
    ELSE /\ clock <= MaxClock
         /\ production' = [production EXCEPT ![o] =
                [exists |-> TRUE, processed_by |-> u]]
         /\ orders' = [orders EXCEPT ![o] =
                Order_save([transition(orders[o], "complete_production", clock)
                               EXCEPT !.produced_by = u])]
         /\ audit' = Logged(o, "production_complete")
         /\ clock' = clock + 1
         /\ Respond(kind, u, o, "ok", 1, 0)
         /\ UNCHANGED <<company, clients, toasting, invoice, inflight, objects>>

\* FacturacionCreateView.post and form_valid.
FacturacionCreate(u, o, valid) ==
    LET g == Guards(u, FacturacionRoles)
        kind == "facturacion_create"
    IN
    IF g # "pass" THEN Reject(kind, u, o, g)
    ELSE IF ~OrderGet(u, o, "ready_for_billing") THEN Reject(kind, u, o, "not_found")
    ELSE IF invoice[o].exists THEN Reject(kind, u, o, "already_exists")
    ELSE IF ~valid THEN Reject(kind, u, o, "form_invalid")
    ELSE /\ clock <= MaxClock
         /\ invoice' = [invoice EXCEPT ![o] =
                [exists |-> TRUE, company |-> u.company, created_by |-> u]]
         /\ orders' = [orders EXCEPT ![o] =
                Order_save([transition(orders[o], "bill_order", clock)
                               EXCEPT !.billed_by = u])]
         /\ audit' = Logged(o, "invoice_create")
         /\ clock' = clock + 1
         /\ Respond(kind, u, o, "ok", 1, 0)
         /\ UNCHANGED <<company, clients, toasting, production, inflight, objects>>

\* Company.suspend / activate / cancel: the row after the call, or the row
\* itself when the call raises ValidationError.
\* A suspend that does not record when it happened.
suspend_mut(c, now) ==
    [status |-> "suspended", suspended_at |-> company[c].suspended_at,
     suspension_reason |-> "Suspendido por administrador del sistema"]

suspend(c, now) ==
    [status |-> "suspended", suspended_at |-> now,
     suspension_reason |-> "Suspendido por administrador del sistema"]

\* An activate that keeps the time and the reason of the suspension.
activate_mut(c) == [company[c] EXCEPT !.status = "active"]

activate(c) == [status |-> "active", suspended_at |-> Null, suspension_reason |-> ""]

cancel(c) ==
    [company[c] EXCEPT !.status = "cancelled",
                       !.suspension_reason = "Cancelado por administrador del sistema"]

CompanyActions == {"suspend", "activate", "cancel"}

\* A view whose activate() accepts a cancelled company.
toggle_company_status_mut(u, c, action) ==
    LET g == TenantMiddleware(u)
        kind == "toggle_company_status"
    IN
    IF g # "pass" THEN Reject(kind, u, Null, g)
    ELSE IF ~u.is_superuser /\ u.role # "super_admin" THEN Reject(kind, u, Null, "forbidden")
    ELSE IF action = "suspend" /\ company[c].status # "active"
         THEN Reject(kind, u, Null, "error")
    ELSE /\ company' = [company EXCEPT ![c] =
                CASE action = "suspend"  -> suspend(c, clock)
                  [] action = "activate" -> activate(c)
                  [] action = "cancel"   -> cancel(c)]
         /\ Respond(kind, u, Null, "ok", 1, 0)
         /\ UNCHANGED <<clients, orders, toasting, production, invoice, audit, clock,
                        inflight, objects>>

\* toggle_company_status (POST).  suspend() on a company that is not active
\* and activate() on a cancelled one raise ValidationError, which the view
\* does not catch.
toggle_company_status(u, c, action) ==
    LET g == TenantMiddleware(u)
        kind == "toggle_company_status"
    IN
    IF g # "pass" THEN Reject(kind, u, Null, g)
    ELSE IF ~u.is_superuser /\ u.role # "super_admin" THEN Reject(kind, u, Null, "forbidden")
    ELSE IF \/ action = "suspend" /\ company[c].status # "active"
            \/ action = "activate" /\ company[c].status = "cancelled"
         THEN Reject(kind, u, Null, "error")
    ELSE /\ company' = [company EXCEPT ![c] =
                CASE action = "suspend"  -> suspend(c, clock)
                  [] action = "activate" -> activate(c)
                  [] action = "cancel"   -> cancel(c)]
         /\ Respond(kind, u, Null, "ok", 1, 0)
         /\ UNCHANGED <<clients, orders, toasting, production, invoice, audit, clock,
                        inflight, objects>>

\* OrderAdmin.get_queryset: every order for is_superuser, the orders of the
\* user's company for a user that has one, every order otherwise.
AdminQueryset(u) ==
    { o \in OrderIds : /\ orders[o].exists
                       /\ (u.is_superuser \/ ~HasCompany(u) \/ orders[o].company = u.company) }

\* OrderAdmin.mark_as_cancelled on the selection {o}: cancel_order() is called
\* on the instance of the queryset and the instance is never saved; the
\* message reports the number of calls.
mark_as_cancelled(u, o) ==
    LET g == TenantMiddleware(u)
        kind == "mark_as_cancelled"
    IN
    IF g # "pass" THEN Reject(kind, u, o, g)
    ELSE IF o \notin AdminQueryset(u) THEN Reject(kind, u, o, "not_found")
    ELSE /\ orders[o].state \notin {"cancelled", "delivered"}
            => TransitionAllowed(orders[o], "cancel_order")
         /\ Respond(kind, u, o, "ok", 0,
                    IF orders[o].state \notin {"cancelled", "delivered"} THEN 1 ELSE 0)
         /\ UNCHANGED <<db, inflight, objects>>

\* User.can_manage_company
can_manage_company(u) == u.role \in {"super_admin", "admin_company"}

\* A table that keeps toasting assistants away from registered orders.
state_permissions_mut(state) ==
    CASE state = "registered"        -> {"aux_registro", "admin_company"}
      [] state = "in_toasting"       -> {"aux_tostion", "admin_company"}
      [] state = "toasting_complete" -> {"aux_produccion", "admin_company"}
      [] state = "in_production"     -> {"aux_produccion", "admin_company"}
      [] state = "ready_for_billing" -> {"aux_facturacion", "admin_company"}
      [] state = "billed"            -> {"aux_facturacion", "admin_company"}
      [] state = "delivered"         -> {"admin_company"}
      [] state = "cancelled"         -> {"admin_company"}
      [] OTHER                       -> {}

\* OrderAdmin.has_change_permission(request, obj), obj an existing order.
state_permissions(state) ==
    CASE state = "registered"        -> {"aux_registro", "aux_tostion", "admin_company"}
      [] state = "in_toasting"       -> {"aux_tostion", "admin_company"}
      [] state = "toasting_complete" -> {"aux_produccion", "admin_company"}
      [] state = "in_production"     -> {"aux_produccion", "admin_company"}
      [] state = "ready_for_billing" -> {"aux_facturacion", "admin_company"}
      [] state = "billed"            -> {"aux_facturacion", "admin_company"}
      [] state = "delivered"         -> {"admin_company"}
      [] state = "cancelled"         -> {"admin_company"}
      [] OTHER                       -> {}

has_change_permission(u, obj) ==
    IF u.is_superuser THEN TRUE
    ELSE IF obj.company # u.company THEN FALSE
    ELSE u.role \in state_permissions(obj.state) \/ can_manage_company(u)

\* The admin's change view of an order: the permission decides the response.
AdminChangeView(u, o) ==
    LET g == TenantMiddleware(u)
        kind == "admin_change"
    IN
    IF g # "pass" THEN Reject(kind, u, o, g)
    ELSE IF ~orders[o].exists THEN Reject(kind, u, o, "not_found")
    ELSE Reject(kind, u, o,
                IF has_change_permission(u, orders[o]) THEN "permitted" ELSE "denied")

\* An Order FSM method called on a fresh instance of the row, followed by
\* save(): what a caller of the model outside the views does.
ApiTransition(o, m) ==
    IF ~orders[o].exists THEN Reject(m, NoUser, o, "not_found")
    ELSE IF ~TransitionAllowed(orders[o], m)
         THEN Reject(m, NoUser, o, "transition_not_allowed")
    ELSE /\ clock <= MaxClock
         /\ orders' = [orders EXCEPT ![o] = Order_save(transition(orders[o], m, clock))]
         /\ clock' = IF ReadsClock(m) THEN clock + 1 ELSE clock
         /\ Respond(m, NoUser, o, "ok", 0, 0)
         /\ UNCHANGED <<company, clients, toasting, production, invoice, audit, inflight, objects>>

\* StartToastingView.post in two steps, for requests served by different
\* workers: the guards and the read of the order, then the write.
BeginStartToasting(r, u, o) ==
    LET g == Guards(u, TostionRoles) IN
    /\ inflight[r].pc = "idle"
    /\ UNCHANGED objects
    /\ inflight' = [inflight EXCEPT ![r] =
            [pc |-> "read", user |-> u, order |-> o, copy |-> orders[o],
             status |-> IF g # "pass" THEN g
                        ELSE IF ~OrderGet(u, o, "registered") THEN "not_found"
                        ELSE "ok"]]
    /\ UNCHANGED <<db, last, result>>

CommitStartToasting(r) ==
    LET f == inflight[r] IN
    /\ f.pc = "read"
    /\ UNCHANGED objects
    /\ inflight' = [inflight EXCEPT ![r] = Idle]
    /\ IF f.status = "ok"
       THEN /\ StartToastingWrite(f.user, f.order, f.copy)
            /\ Respond("start_toasting_post", f.user, f.order, "ok", 1, 0)
       ELSE /\ Respond("start_toasting_post", f.user, f.order, f.status, 0, 0)
            /\ UNCHANGED db

\* ------------------------------------------------------------ specifications
\* The step forms posted: one that fails validation, a valid one with the
\* optional measurement fields empty, a valid one with them filled.
TostionForms == {"invalid", "blank", "filled"}

\* The posts of the toasting wizard: the steps that read an optional field with
\* each valid form, the others with a filled form, and one invalid form.
TostionPosts ==
    { [step |-> st, form |-> f] : st \in {"monitoring", "completion"},
                                  f \in TostionForms \ {"invalid"} }
    \cup { [step |-> st, form |-> "filled"] : st \in {"reception", "setup", "other"} }
    \cup { [step |-> "reception", form |-> "invalid"] }

\* The companies whose status the administrators of a run change.
Administered == {"A"}

\* The requests on clients and orders, the toasting wizard apart.
OrderRequests ==
    \/ \E u \in Principals, c \in ClientIds, valid \in BOOLEAN : ClienteCreate(u, c, valid)
    \/ \E u \in Principals, o \in OrderIds, c \in ClientIds, valid \in BOOLEAN :
          MaquilaCreate(u, o, c, valid)
    \/ \E u \in Principals, o \in OrderIds, c \in ClientIds, valid \in BOOLEAN :
          MaquilaUpdate(u, o, c, valid)
    \/ \E u \in Principals, o \in OrderIds : StartToasting(u, o)
    \/ \E u \in Principals, o \in OrderIds, valid \in BOOLEAN : ProduccionCreate(u, o, valid)
    \/ \E u \in Principals, o \in OrderIds, valid \in BOOLEAN : FacturacionCreate(u, o, valid)
    \/ \E u \in Principals, o \in OrderIds : mark_as_cancelled(u, o)
    \/ \E u \in Principals, o \in OrderIds : AdminChangeView(u, o)

\* The toasting wizard: its page, and the posts in posts.
Wizard(posts) ==
    \/ \E u \in Principals, o \in OrderIds : TostionGet(u, o)
    \/ \E u \in Principals, o \in OrderIds, p \in posts :
          TostionPost(u, o, p.step, p.form # "invalid", p.form = "filled", p.form = "filled")

\* The requests on companies.
CompanyRequests ==
    \E u \in Principals, c \in Administered, action \in CompanyActions :
        toggle_company_status(u, c, action)

\* The requests of the web application, each served as one step.
Next == OrderRequests \/ Wizard(TostionPosts) \/ CompanyRequests

Spec == Init /\ [][Next]_vars

\* The posts of the wizard's last step.
CompletionPosts == { p \in TostionPosts : p.step = "completion" }

\* The whole life cycle of an order: the requests on clients and orders of
\* active companies, the wizard's last step, and the Order methods called
\* directly (no view calls start_production or deliver_order).
NextApi ==
    \/ OrderRequests
    \/ \E u \in Principals, o \in OrderIds, p \in CompletionPosts :
          TostionPost(u, o, p.step, p.form # "invalid", p.form = "filled", p.form = "filled")
    \/ \E o \in OrderIds, m \in TransitionMethods : ApiTransition(o, m)

SpecApi == Init /\ [][NextApi]_vars

\* Client and order creation, and start-toasting requests served by several
\* workers.
NextConc ==
    \/ \E u \in Principals, c \in ClientIds, valid \in BOOLEAN : ClienteCreate(u, c, valid)
    \/ \E u \in Principals, o \in OrderIds, c \in ClientIds, valid \in BOOLEAN :
          MaquilaCreate(u, o, c, valid)
    \/ \E r \in Reqs, u \in Principals, o \in OrderIds : BeginStartToasting(r, u, o)
    \/ \E r \in Reqs : CommitStartToasting(r)

SpecConc == Init /\ [][NextConc]_vars

\* ------------------------------------------------------------------ claims
\* What a request is about: the row of the order it names, before the request.
Terminal(o) == orders[o].exists /\ orders[o].state \in {"delivered", "cancelled"}

\* State, stage timestamps and attribution fields of an order row.
Stamps(ord) ==
    <<ord.state, ord.toasting_started_at, ord.toasting_completed_at,
      ord.production_started_at, ord.production_completed_at, ord.billed_at,
      ord.delivered_at, ord.toasted_by, ord.produced_by, ord.billed_by,
      ord.delivered_by>>

\* The kinds of request that change an order: edit, start toasting, the
\* toasting wizard, production creation, invoice creation.
ChangeKinds == {"maquila_update", "start_toasting_post", "tostion_get", "tostion_post",
                "produccion_create", "facturacion_create"}

\* The kinds of request that transition an order.
StageKinds == {"start_toasting_post", "tostion_post", "produccion_create",
               "facturacion_create"}

\* The views whose dispatch carries rol_requerido.
DecoratedKinds == ChangeKinds \cup {"cliente_create", "maquila_create"}

\* The edges of the order state machine, as the table of transitions lists them.
Edges ==
    { <<"registered", "in_toasting">>, <<"in_toasting", "toasting_complete">>,
      <<"toasting_complete", "in_production">>, <<"in_production", "ready_for_billing">>,
      <<"ready_for_billing", "billed">>, <<"billed", "delivered">> }
    \cup { <<x, "cancelled">> : x \in {"registered", "in_toasting", "toasting_complete",
                                        "in_production", "ready_for_billing", "billed"} }

\* C1: over every sequence of requests and method calls, an order is created
\* in state registered, is never deleted, and every change of its state is an
\* edge of the transition table.
C1_StateChangesFollowEdges ==
    [][\A o \in OrderIds :
          /\ (~orders[o].exists /\ orders'[o].exists) => orders'[o].state = "registered"
          /\ orders[o].exists =>
                /\ orders'[o].exists
                /\ \/ orders'[o].state = orders[o].state
                   \/ <<orders[o].state, orders'[o].state>> \in Edges]_vars

\* C1 witness: an order went through every stage to delivered, its toasting
\* started by a request and its invoice created by a request.
C1_Witness ==
    \E o \in OrderIds :
        /\ orders[o].state = "delivered"
        /\ audit[o]["toasting_start"] = 1
        /\ audit[o]["invoice_create"] = 1

\* C2: on an order that is delivered or cancelled every transition method is
\* refused (a direct call ends in TransitionNotAllowed), can_transition_to is
\* false for every state, and no step changes the order's state, stage
\* timestamps or attribution fields.
C2_TerminalOrdersAreFrozen ==
    [][\A o \in OrderIds : Terminal(o) =>
          /\ \A m \in TransitionMethods : ~TransitionAllowed(orders[o], m)
          /\ \A st \in STATE_CHOICES : ~can_transition_to(orders[o], st)
          /\ Stamps(orders'[o]) = Stamps(orders[o])
          /\ (last'.order = o /\ last'.kind \in TransitionMethods)
                => result'.status = "transition_not_allowed"
          /\ (last'.order = o /\ last'.kind \in StageKinds) => result'.status # "ok"]_vars

\* C2 witness: cancel_order was called on a delivered order and refused.
C2_Witness ==
    \E o \in OrderIds :
        /\ orders[o].state = "delivered"
        /\ last = [kind |-> "cancel_order", user |-> NoUser, order |-> o]
        /\ result.status = "transition_not_allowed"

C4_InactiveTenantRejectedFirst ==
    [][(HasCompany(last'.user) /\ ~is_active(last'.user.company))
          => /\ result'.status = "mw_company_inactive"
             /\ UNCHANGED db]_vars

\* C4 witness: company A is not active and a production assistant of A, whose
\* role the start-toasting view does not admit, got the tenant rejection.
C4_Witness ==
    /\ company["A"].status \in {"suspended", "cancelled"}
    /\ last.kind = "start_toasting_post"
    /\ last.user = User("aux_produccion", "A", FALSE)
    /\ result.status = "mw_company_inactive"

\* C5 as claimed: a request to a role-guarded view passes the tenant guards
\* exactly when it is not the case that the principal's role is not
\* super_admin and it has no company, or that its company is not active.
C5_Claimed ==
    [][last'.kind \in DecoratedKinds =>
          ( result'.status \notin TenantRejections
            <=> ~( \/ last'.user.role # "super_admin" /\ ~HasCompany(last'.user)
                   \/ HasCompany(last'.user) /\ ~is_active(last'.user.company) ) )]_vars

\* A principal that is a super_admin neither by role nor by is_superuser.
NotSuper(u) == u.role # "super_admin" /\ ~u.is_superuser

\* The stage request that is the legal one for an order in each state.
LegalKind(state) ==
    CASE state = "registered"        -> "start_toasting_post"
      [] state = "in_toasting"       -> "tostion_post"
      [] state = "in_production"     -> "produccion_create"
      [] state = "ready_for_billing" -> "facturacion_create"
      [] OTHER                       -> "none"

\* A request turned away for the principal's role or company.
Unauthorized == TenantRejections \cup {"role_denied", "not_found", "denied"}

\* The allow-list as claimed.
ClaimedAllow(state) ==
    CASE state = "registered"        -> {"aux_registro"}
      [] state = "in_toasting"       -> {"aux_tostion"}
      [] state = "toasting_complete" -> {"aux_produccion"}
      [] state = "in_production"     -> {"aux_produccion"}
      [] state = "ready_for_billing" -> {"aux_facturacion"}
      [] OTHER                       -> {}

\* The allow-list of the admin's change permission.
AdminAllow(state) ==
    CASE state = "registered"        -> {"aux_registro", "aux_tostion"}
      [] state = "in_toasting"       -> {"aux_tostion"}
      [] state = "toasting_complete" -> {"aux_produccion"}
      [] state = "in_production"     -> {"aux_produccion"}
      [] state = "ready_for_billing" -> {"aux_facturacion"}
      [] state = "billed"            -> {"aux_facturacion"}
      [] OTHER                       -> {}

\* The allow-list of the stage views.
ViewAllow(state) ==
    CASE state = "registered"        -> {"aux_tostion"}
      [] state = "in_toasting"       -> {"aux_tostion"}
      [] state = "in_production"     -> {"aux_produccion"}
      [] state = "ready_for_billing" -> {"aux_facturacion"}
      [] OTHER                       -> {}

\* An authorization decision taken in this step on order o for a principal
\* that is not a super_admin: by the admin's change permission, or by the
\* stage view that is the legal one for the order's state.
AdminDecision(o) ==
    /\ orders[o].exists /\ last'.order = o /\ NotSuper(last'.user)
    /\ last'.kind = "admin_change"

ViewDecision(o) ==
    /\ orders[o].exists /\ last'.order = o /\ NotSuper(last'.user)
    /\ last'.kind = LegalKind(orders[o].state)

TostionAssistantRequest(o) ==
    /\ orders[o].exists /\ last'.order = o
    /\ last'.user.role = "aux_tostion" /\ last'.kind \in StageKinds

StartRequestInTenant(o) ==
    /\ orders[o].exists /\ orders[o].state = "registered"
    /\ last'.order = o /\ last'.kind = "start_toasting_post"
    /\ last'.user.company = orders[o].company
    /\ is_active(orders[o].company)

C9_Claimed ==
    [][\A o \in OrderIds :
          ( /\ orders[o].exists /\ last'.order = o
            /\ last'.user.role = "super_admin" /\ last'.user.is_superuser
            /\ last'.kind = LegalKind(orders[o].state) )
          => result'.status \notin Unauthorized]_vars

\* C10 as claimed: when a start-toasting request that read the order in state
\* registered comes to its write after another has moved the order to
\* in_toasting, it fails, and the order's state, stamps and attribution and
\* the count of toasting_start audit rows stay as the first request left them.
C10_Claimed ==
    [][\A r \in Reqs :
          LET f == inflight[r] IN
          ( /\ f.pc = "read" /\ inflight'[r].pc = "idle"
            /\ f.status = "ok"
            /\ orders[f.order].state = "in_toasting" )
          => /\ result'.status # "ok"
             /\ Stamps(orders'[f.order]) = Stamps(orders[f.order])
             /\ audit'[f.order]["toasting_start"] = audit[f.order]["toasting_start"]]_vars

\* ------------------------------------------- order creation, interleaved
\* The order table with room for a batch of creations.
BatchIds == 1..MaxBatch

InitBatch ==
    /\ company = [c \in Companies |->
                    [status |-> "active", suspended_at |-> Null, suspension_reason |-> ""]]
    /\ clients = [c \in ClientIds |-> NoClient]
    /\ orders = [o \in BatchIds |-> NoOrder]
    /\ toasting = [o \in BatchIds |-> NoToasting]
    /\ production = [o \in BatchIds |-> NoProduction]
    /\ invoice = [o \in BatchIds |-> NoInvoice]
    /\ audit = [o \in BatchIds |-> [a \in AuditActions |-> 0]]
    /\ clock = 1
    /\ last = [kind |-> "none", user |-> NoUser, order |-> Null]
    /\ result = [status |-> "none", appended |-> 0, updated |-> 0]
    /\ inflight = [r \in Reqs |-> Idle]
    /\ objects = [m \in TenantModels |-> original_manager]

\* The rows a creation in flight will insert.
Creating == { r \in Reqs : inflight[r].pc = "numbered" /\ inflight[r].status = "ok" }

\* MaquilaCreateView.post up to the statement that inserts the row: guards,
\* form validation, and in Order.save the query of generate_order_number.
BeginMaquilaCreate(r, u, c, valid) ==
    LET g == Guards(u, RegistroRoles)
        new == [NoOrder EXCEPT !.exists = TRUE, !.company = u.company, !.client = c]
        st == IF g # "pass" THEN g
              ELSE IF ~valid \/ ~ClientChoiceValid(u, c) THEN "form_invalid"
              ELSE "ok"
    IN
    /\ inflight[r].pc = "idle"
    /\ Cardinality({ o \in DOMAIN orders : orders[o].exists }) + Cardinality(Creating)
          < MaxBatch
    /\ UNCHANGED objects
    /\ inflight' = [inflight EXCEPT ![r] =
            [pc |-> "numbered", user |-> u, order |-> Null,
             copy |-> IF st = "ok" THEN Order_save(new) ELSE NoOrder,
             status |-> st]]
    /\ UNCHANGED <<db, last, result>>

\* order_number is unique=True: the insert fails when a row holds the number
\* (the number's text carries the company's NIT and the sequence).
NumberTaken(ord) ==
    \E o \in DOMAIN orders :
        /\ orders[o].exists
        /\ orders[o].company = ord.company
        /\ orders[o].order_number = ord.order_number

\* The insert, the ActivityLog row and the response.  An IntegrityError leaves
\* the atomic block of form_valid with nothing written.
CommitMaquilaCreate(r) ==
    LET f == inflight[r]
        o == CHOOSE x \in DOMAIN orders :
                 ~orders[x].exists /\ \A k \in DOMAIN orders : k < x => orders[k].exists
    IN
    /\ f.pc = "numbered"
    /\ UNCHANGED objects
    /\ inflight' = [inflight EXCEPT ![r] = Idle]
    /\ IF f.status # "ok"
       THEN /\ Respond("maquila_create", f.user, Null, f.status, 0, 0)
            /\ UNCHANGED db
       ELSE IF NumberTaken(f.copy)
       THEN /\ Respond("maquila_create", f.user, Null, "error", 0, 0)
            /\ UNCHANGED db
       ELSE /\ orders' = [orders EXCEPT ![o] = f.copy]
            /\ audit' = Logged(o, "maquila_create")
            /\ Respond("maquila_create", f.user, o, "ok", 1, 0)
            /\ UNCHANGED <<company, clients, toasting, production, invoice, clock>>

\* Client creation, and order creations served by several workers.
NextBatch ==
    \/ \E u \in Principals, c \in ClientIds, valid \in BOOLEAN : ClienteCreate(u, c, valid)
    \/ \E r \in Reqs, u \in Principals, c \in ClientIds, valid \in BOOLEAN :
          BeginMaquilaCreate(r, u, c, valid)
    \/ \E r \in Reqs : CommitMaquilaCreate(r)

SpecBatch == InitBatch /\ [][NextBatch]_vars

\* C11 as claimed: every creation that passed the guards and the form
\* validation and was given its number succeeds when it comes to its insert,
\* and afterwards the numbers of each company are distinct and form the run
\* 1..n, n the number of the company's orders.
C11_Claimed ==
    [][\A r \in Reqs :
          (inflight[r].pc = "numbered" /\ inflight[r].status = "ok"
             /\ inflight'[r].pc = "idle")
          => /\ result'.status = "ok"
             /\ \A comp \in Companies :
                   LET n == Cardinality({ o \in DOMAIN orders' :
                                  orders'[o].exists /\ orders'[o].company = comp })
                   IN  { orders'[o].order_number :
                           o \in { x \in DOMAIN orders' :
                                     orders'[x].exists /\ orders'[x].company = comp } }
                       = 1..n]_vars

\* C12: an order has its number from the step that creates it, and no step
\* (edit, transition by a view or by a method call, admin action) changes the
\* number of an order that exists.
C12_OrderNumberImmutable ==
    [][\A o \in OrderIds :
          /\ (~orders[o].exists /\ orders'[o].exists) => orders'[o].order_number # Null
          /\ orders[o].exists
                => /\ orders[o].order_number # Null
                   /\ orders'[o].order_number = orders[o].order_number]_vars

\* C12 witness: an order that was edited and then taken through toasting to
\* production still holds the number it was created with.
C12_Witness ==
    \E o \in OrderIds :
        /\ orders[o].state = "in_production"
        /\ audit[o]["maquila_update"] = 1
        /\ audit[o]["toasting_complete"] = 1
        /\ orders[o].order_number = 1

\* The stage timestamps and the attribution fields of an order, and the pair
\* of them that belongs to each state a view moves an order to.
TimeFields == {"toasting_started_at", "toasting_completed_at", "production_started_at",
               "production_completed_at", "billed_at", "delivered_at"}
ByFields == {"toasted_by", "produced_by", "billed_by", "delivered_by"}

StampOf(st) ==
    CASE st = "in_toasting"       -> "toasting_started_at"
      [] st = "toasting_complete" -> "toasting_completed_at"
      [] st = "in_production"     -> "production_started_at"
      [] st = "ready_for_billing" -> "production_completed_at"
      [] st = "billed"            -> "billed_at"
      [] st = "delivered"         -> "delivered_at"

ByOf(st) ==
    CASE st \in {"in_toasting", "toasting_complete"}   -> "toasted_by"
      [] st \in {"in_production", "ready_for_billing"} -> "produced_by"
      [] st = "billed"                                 -> "billed_by"
      [] st = "delivered"                              -> "delivered_by"

\* C13 as claimed: a successful transition request stamps the timestamp and
\* the attribution field of the target state with the time and the user of the
\* request, sets no other timestamp or attribution field, and leaves every
\* timestamp and attribution field that already had a value with that value.
C13_Claimed ==
    [][\A o \in OrderIds :
          (/\ orders[o].exists
           /\ orders'[o].state # orders[o].state
           /\ last'.kind \in StageKinds
           /\ result'.status = "ok")
          => /\ orders'[o][StampOf(orders'[o].state)] = clock
             /\ orders'[o][ByOf(orders'[o].state)] = last'.user
             /\ \A f \in TimeFields \ {StampOf(orders'[o].state)} :
                    orders'[o][f] = orders[o][f]
             /\ \A f \in ByFields \ {ByOf(orders'[o].state)} :
                    orders'[o][f] = orders[o][f]
             /\ \A f \in TimeFields : orders[o][f] # Null => orders'[o][f] = orders[o][f]
             /\ \A f \in ByFields : orders[o][f] # NoUser => orders'[o][f] = orders[o][f]]_vars

\* The steps of the toasting sub-process, in the order the workflow names them.
SubEdges == { <<"received", "started">>, <<"started", "monitoring">>,
              <<"monitoring", "completed">> }

\* C14 as claimed: under every sequence of wizard requests, the sub-state of
\* an order's ToastingProcess (received from the moment get_or_create makes the
\* row) either stays or moves one step along
\* received -> started -> monitoring -> completed.
C14_Claimed ==
    [][\A o \in OrderIds :
          \/ toasting'[o].process_status = toasting[o].process_status
          \/ <<toasting[o].process_status, toasting'[o].process_status>> \in SubEdges]_vars

\* C15 as claimed: a completion post that reaches form_valid while the
\* ToastingProcess is received or started is answered with an error and
\* changes neither the sub-state nor the state of the order.
C15_Claimed ==
    [][\A u \in Principals, o \in OrderIds, p \in CompletionPosts :
          (/\ Guards(u, TostionRoles) = "pass"
           /\ OrderGet(u, o, "in_toasting")
           /\ get_or_create_toasting(o).process_status \in {"received", "started"}
           /\ TostionPost(u, o, p.step, p.form # "invalid", p.form = "filled",
                          p.form = "filled"))
          => /\ result'.status = "error"
             /\ toasting'[o].process_status = get_or_create_toasting(o).process_status
             /\ orders'[o].state = orders[o].state]_vars

\* The states after in_toasting on the forward path.
PastToasting == {"toasting_complete", "in_production", "ready_for_billing", "billed",
                 "delivered"}

\* C16 as claimed: an order that the wizard has taken past in_toasting has a
\* ToastingProcess whose sub-state is completed.
C16_Claimed ==
    \A o \in OrderIds :
        (orders[o].exists /\ orders[o].state \in PastToasting
            /\ audit[o]["toasting_complete"] > 0)
        => (toasting[o].exists /\ toasting[o].process_status = "completed")

\* ------------------------------------------------------- storage failures
\* The writes of a request that can raise a database error: the save of the
\* order and the insert of the ActivityLog row.
Faults == {"order_save", "activity_log"}

\* The tables the order views write.
Tables == [orders |-> orders, toasting |-> toasting, audit |-> audit]

\* A block that keeps the writes made before the exception.
atomic_mut(entered, reached) == reached

\* transaction.atomic(): an exception that leaves the block undoes the writes
\* made since the block was entered.
atomic(entered, reached) == entered

\* MaquilaCreateView.form_valid when form.save() or ActivityLog.objects.create
\* raises: nothing catches the exception, the block is rolled back and the
\* request ends in a server error.
MaquilaCreateFails(u, o, c, fault) ==
    LET new == Order_save([NoOrder EXCEPT !.exists = TRUE, !.company = u.company,
                                          !.client = c])
        reached == IF fault = "order_save" THEN Tables
                   ELSE [Tables EXCEPT !.orders = [orders EXCEPT ![o] = new]]
        t == atomic(Tables, reached)
    IN
    /\ Guards(u, RegistroRoles) = "pass"
    /\ ClientChoiceValid(u, c)
    /\ ~orders[o].exists
    /\ \A k \in OrderIds : k < o => orders[k].exists
    /\ orders' = t.orders
    /\ toasting' = t.toasting
    /\ audit' = t.audit
    /\ Respond("maquila_create", u, Null, "storage_error", 0, 0)
    /\ UNCHANGED <<company, clients, production, invoice, clock, inflight, objects>>

\* StartToastingView.post when maquila.save() or ActivityLog.objects.create
\* raises: the view catches Order.DoesNotExist only and opens no transaction,
\* so an order already saved stays saved and the request ends in a server
\* error.
StartToastingFails(u, o, fault) ==
    /\ Guards(u, TostionRoles) = "pass"
    /\ OrderGet(u, o, "registered")
    /\ IF fault = "order_save"
       THEN UNCHANGED <<orders, clock>>
       ELSE /\ clock <= MaxClock
            /\ orders' = [orders EXCEPT ![o] =
                    Order_save([transition(orders[o], "start_toasting", clock)
                                   EXCEPT !.toasted_by = u])]
            /\ clock' = clock + 1
    /\ Respond("start_toasting_post", u, o, "storage_error", 0, 0)
    /\ UNCHANGED <<company, clients, toasting, production, invoice, audit, inflight, objects>>

\* TostionCreateView.form_valid, completion step, when self.order.save() or
\* ActivityLog.objects.create raises: get_or_create has committed before the
\* block, the block is rolled back.
TostionPostFails(u, o, has_processed, fault) ==
    LET tp == get_or_create_toasting(o)
        entered == [Tables EXCEPT !.toasting = [toasting EXCEPT ![o] = tp]]
        processed == [entered EXCEPT !.toasting = [toasting EXCEPT ![o] = complete_process(tp)]]
        reached == IF fault = "order_save" THEN processed
                   ELSE [processed EXCEPT !.orders = [orders EXCEPT ![o] =
                            Order_save([transition(orders[o], "complete_toasting", clock)
                                           EXCEPT !.toasted_by = u])]]
        t == atomic(entered, reached)
    IN
    /\ Guards(u, TostionRoles) = "pass"
    /\ OrderGet(u, o, "in_toasting")
    /\ ~(can_complete_toasting(tp) /\ ~has_processed)
    /\ clock <= MaxClock
    /\ orders' = t.orders
    /\ toasting' = t.toasting
    /\ audit' = t.audit
    /\ clock' = IF t.orders # orders THEN clock + 1 ELSE clock
    /\ Respond("tostion_post", u, o, "storage_error", 0, 0)
    /\ UNCHANGED <<company, clients, production, invoice, inflight, objects>>

\* Order creation and the toasting stage, with the database failing at any
\* write of the order or of the audit row.
NextFault ==
    \/ \E u \in Principals, c \in ClientIds, valid \in BOOLEAN : ClienteCreate(u, c, valid)
    \/ \E u \in Principals, o \in OrderIds, c \in ClientIds, valid \in BOOLEAN :
          MaquilaCreate(u, o, c, valid)
    \/ \E u \in Principals, o \in OrderIds : StartToasting(u, o)
    \/ Wizard(TostionPosts)
    \/ \E u \in Principals, o \in OrderIds, c \in ClientIds, fault \in Faults :
          MaquilaCreateFails(u, o, c, fault)
    \/ \E u \in Principals, o \in OrderIds, fault \in Faults : StartToastingFails(u, o, fault)
    \/ \E u \in Principals, o \in OrderIds, has_processed \in BOOLEAN, fault \in Faults :
          TostionPostFails(u, o, has_processed, fault)

SpecFault == Init /\ [][NextFault]_vars

\* C17: in every state the requests leave behind, database failures at the
\* order save or at the audit insert included, no order is in_toasting with a
\* ToastingProcess in sub-state completed.
C17_CompletionAllOrNothing ==
    \A o \in OrderIds :
        ~(orders[o].state = "in_toasting" /\ toasting[o].process_status = "completed")

\* C17 witness: a completion post on a process in monitoring met a database
\* failure; the order is in_toasting and the process is still monitoring.
C17_Witness ==
    \E o \in OrderIds :
        /\ last = [kind |-> "tostion_post", user |-> last.user, order |-> o]
        /\ result.status = "storage_error"
        /\ orders[o].state = "in_toasting"
        /\ toasting[o].process_status = "monitoring"

\* C18 as claimed: when the insert of the audit row fails in order creation,
\* start toasting or toasting completion, the caller gets the success answer
\* and the order is written as in the run without the failure.
C18_Claimed ==
    [][\A u \in Principals, o \in OrderIds :
          (\/ \E c \in ClientIds : MaquilaCreateFails(u, o, c, "activity_log")
           \/ StartToastingFails(u, o, "activity_log")
           \/ \E has_processed \in BOOLEAN : TostionPostFails(u, o, has_processed, "activity_log"))
          => /\ result'.status = "ok"
             /\ orders'[o] # orders[o]]_vars

\* ------------------------------------------------- companies in the admin
\* CompanyAdmin's actions on the selection {c}, run by a superuser (who holds
\* every admin permission): each calls the Company method on the rows its own
\* condition lets through, writes no ActivityLog row and reports success.
\* TenantMiddleware.log_activity writes its access row only for a user that
\* has a company.
CompanyAdminActions == {"suspend_companies", "activate_companies", "cancel_companies"}

CompanyAdminAction(u, c, action) ==
    LET g == TenantMiddleware(u)
        row == company[c]
    IN
    /\ u.is_superuser
    /\ IF g # "pass" THEN Reject(action, u, Null, g)
       ELSE /\ company' = [company EXCEPT ![c] =
                   CASE action = "suspend_companies" ->
                            IF row.status = "active"
                            THEN [suspend(c, clock) EXCEPT
                                     !.suspension_reason = "Suspendido por administrador"]
                            ELSE row
                     [] action = "activate_companies" ->
                            IF row.status \in {"suspended", "active"} THEN activate(c)
                            ELSE row
                     [] action = "cancel_companies" ->
                            [cancel(c) EXCEPT
                                !.suspension_reason = "Cancelado por administrador"]]
            /\ Respond(action, u, Null, "ok", IF HasCompany(u) THEN 1 ELSE 0, 0)
            /\ UNCHANGED <<clients, orders, toasting, production, invoice, audit, clock,
                           inflight, objects>>

\* The status of every company changed through the view and through the
\* admin, with clients and orders created and toasting started meanwhile.
NextCompany ==
    \/ \E u \in Principals, c \in Companies, action \in CompanyActions :
          toggle_company_status(u, c, action)
    \/ \E u \in Principals, c \in Companies, action \in CompanyAdminActions :
          CompanyAdminAction(u, c, action)
    \/ \E u \in Principals, c \in ClientIds, valid \in BOOLEAN : ClienteCreate(u, c, valid)
    \/ \E u \in Principals, o \in OrderIds, c \in ClientIds, valid \in BOOLEAN :
          MaquilaCreate(u, o, c, valid)
    \/ \E u \in Principals, o \in OrderIds : StartToasting(u, o)

SpecCompany == Init /\ [][NextCompany]_vars

\* C19 as claimed: a request that succeeds and changes an order, an invoice or
\* a company appends exactly one ActivityLog row, and a request that does not
\* succeed appends none.
C19_Claimed ==
    [][/\ (result'.status = "ok"
            /\ (orders' # orders \/ invoice' # invoice \/ company' # company))
          => result'.appended = 1
       /\ result'.status # "ok" => (result'.appended = 0 /\ audit' = audit)]_vars

\* The users toggle_company_status lets through.
CompanyManager(u) ==
    TenantMiddleware(u) = "pass" /\ (u.is_superuser \/ u.role = "super_admin")

\* C20: a cancelled company stays cancelled under every suspend, activate and
\* cancel, by the view or by the admin; the view's activate and suspend on a
\* cancelled company end in the validation error, and they and the admin's
\* activate and suspend leave its status, suspended_at and suspension_reason
\* as they were.
C20_CancelledIsTerminal ==
    [][\A c \in Companies :
          company[c].status = "cancelled"
          => /\ company'[c].status = "cancelled"
             /\ \A u \in Principals, action \in {"suspend", "activate"} :
                   (CompanyManager(u) /\ toggle_company_status(u, c, action))
                   => (result'.status = "error" /\ company'[c] = company[c])
             /\ \A u \in Principals,
                  action \in {"suspend_companies", "activate_companies"} :
                   CompanyAdminAction(u, c, action) => company'[c] = company[c]]_vars

\* C20 witness: activate was requested by a super administrator for a
\* cancelled company that had been suspended before; the request failed and
\* the company is cancelled with the time of its suspension kept.
C20_Witness ==
    \E c \in Companies :
        /\ company[c].status = "cancelled"
        /\ company[c].suspended_at # Null
        /\ last.kind = "toggle_company_status"
        /\ CompanyManager(last.user)
        /\ result.status = "error"

\* The status changes suspend, activate and cancel can make.
StatusChanges ==
    {<<"active", "suspended">>, <<"suspended", "active">>, <<"active", "active">>}
    \cup {<<s, "cancelled">> : s \in {"active", "suspended", "cancelled"}}

\* C30: suspend succeeds only from active, to suspended with suspended_at and
\* the reason recorded; activate succeeds from active or suspended, to active;
\* cancel succeeds from any status, to cancelled; no other change of status
\* happens.  suspend on a company that is not active ends in the validation
\* error in the view, changes no field of any company and writes no audit
\* record; the admin's suspend leaves such a company as it was.
C30_CompanyStatusChanges ==
    [][\A c \in Companies :
         /\ company'[c] # company[c]
               => <<company[c].status, company'[c].status>> \in StatusChanges
         /\ \A u \in Principals :
               /\ (CompanyManager(u) /\ toggle_company_status(u, c, "suspend")) =>
                     IF company[c].status = "active"
                     THEN /\ result'.status = "ok"
                          /\ company'[c].status = "suspended"
                          /\ company'[c].suspended_at = clock
                          /\ company'[c].suspended_at # Null
                          /\ company'[c].suspension_reason # ""
                     ELSE /\ result'.status = "error"
                          /\ result'.appended = 0
                          /\ company' = company
                          /\ audit' = audit
               /\ (CompanyManager(u) /\ toggle_company_status(u, c, "activate")) =>
                     IF company[c].status \in {"active", "suspended"}
                     THEN /\ result'.status = "ok"
                          /\ company'[c].status = "active"
                          /\ company'[c].suspended_at = Null
                     ELSE /\ result'.status = "error"
                          /\ company' = company
               /\ (CompanyManager(u) /\ toggle_company_status(u, c, "cancel")) =>
                     /\ result'.status = "ok"
                     /\ company'[c].status = "cancelled"
               /\ CompanyAdminAction(u, c, "suspend_companies") =>
                     IF company[c].status = "active" /\ TenantMiddleware(u) = "pass"
                     THEN /\ company'[c].status = "suspended"
                          /\ company'[c].suspended_at = clock
                     ELSE /\ company' = company
                          /\ audit' = audit
               /\ CompanyAdminAction(u, c, "activate_companies") =>
                     IF /\ company[c].status \in {"active", "suspended"}
                        /\ TenantMiddleware(u) = "pass"
                     THEN company'[c].status = "active"
                     ELSE company' = company
               /\ (CompanyAdminAction(u, c, "cancel_companies")
                      /\ TenantMiddleware(u) = "pass") =>
                     company'[c].status = "cancelled"]_vars

\* A suspend was refused while every company was suspended, each with the
\* time of its suspension on record.
C30_Witness ==
    /\ \A c \in Companies :
          /\ company[c].status = "suspended"
          /\ company[c].suspended_at # Null
    /\ last.kind = "toggle_company_status"
    /\ CompanyManager(last.user)
    /\ result.status = "error"
    /\ result.appended = 0

\* ------------------------------------------------------- invoice amounts
\* Amounts are DecimalFields with two decimal places: subtotal, tax_amount and
\* total_amount are counted in hundredths, tax_rate in hundredths of a percent.
\* The values a FacturaForm accepts, ties of the rounding and negative amounts
\* among them.
Subtotals == {-150, -1, 0, 1, 50, 150, 250, 349, 9999}
TaxRates  == {0, 1, 100, 333, 1900, 1950}

\* format_number's quantize of n/d to a whole number of hundredths, under the
\* default decimal context (ROUND_HALF_EVEN).
quantize(n, d) ==
    LET q == n \div d
        r == n % d
    IN  IF 2 * r < d THEN q
        ELSE IF 2 * r > d THEN q + 1
        ELSE IF q % 2 = 0 THEN q ELSE q + 1

\* A save that adds the tax to the total the row already holds.
Invoice_save_mut(self) ==
    [self EXCEPT !.exists = TRUE,
                 !.tax_amount = quantize(self.subtotal * self.tax_rate, 10000),
                 !.total_amount = quantize(self.total_amount * 10000
                                           + self.subtotal * self.tax_rate, 10000)]

\* Invoice.save: tax_amount = subtotal * (tax_rate / 100) and total_amount =
\* subtotal + tax_amount in exact Decimal arithmetic (millionths here), each
\* stored with two decimal places.
Invoice_save(self) ==
    [self EXCEPT !.exists = TRUE,
                 !.tax_amount = quantize(self.subtotal * self.tax_rate, 10000),
                 !.total_amount = quantize(self.subtotal * 10000
                                           + self.subtotal * self.tax_rate, 10000)]

\* An Invoice instance built from a valid FacturaForm, before its first save.
NewInvoice(sub, rate) ==
    [exists |-> FALSE, company |-> "A", created_by |-> NoUser,
     subtotal |-> sub, tax_rate |-> rate, tax_amount |-> 0, total_amount |-> 0]

InitInvoice ==
    /\ \E sub \in Subtotals, rate \in TaxRates :
          invoice = [o \in OrderIds |-> NewInvoice(sub, rate)]
    /\ company = [c \in Companies |->
          [status |-> "active", suspended_at |-> Null, suspension_reason |-> ""]]
    /\ clients = [c \in ClientIds |-> NoClient]
    /\ orders = [o \in OrderIds |-> NoOrder]
    /\ toasting = [o \in OrderIds |-> NoToasting]
    /\ production = [o \in OrderIds |-> NoProduction]
    /\ audit = [o \in OrderIds |-> [a \in AuditActions |-> 0]]
    /\ clock = 1
    /\ last = [kind |-> "none", user |-> NoUser, order |-> Null]
    /\ result = [status |-> "none", appended |-> 0, updated |-> 0]
    /\ inflight = [r \in Reqs |-> Idle]
    /\ objects = [m \in TenantModels |-> original_manager]

\* invoice.save() on the instance as it stands: the first save, or a later
\* save of the row with nothing edited.
InvoiceSave(o) ==
    /\ invoice' = [invoice EXCEPT ![o] = Invoice_save(invoice[o])]
    /\ Respond("invoice_save", NoUser, o, "ok", 0, 0)
    /\ UNCHANGED <<company, clients, orders, toasting, production, audit, clock, inflight, objects>>

\* The admin's change form of an invoice: subtotal and tax_rate are editable,
\* tax_amount and total_amount are read-only; the form saves the row.
InvoiceChange(o, sub, rate) ==
    /\ invoice[o].exists
    /\ invoice' = [invoice EXCEPT ![o] =
            Invoice_save([invoice[o] EXCEPT !.subtotal = sub, !.tax_rate = rate])]
    /\ Respond("invoice_change", NoUser, o, "ok", 0, 0)
    /\ UNCHANGED <<company, clients, orders, toasting, production, audit, clock, inflight, objects>>

NextInvoice ==
    \/ \E o \in OrderIds : InvoiceSave(o)
    \/ \E o \in OrderIds, sub \in Subtotals, rate \in TaxRates : InvoiceChange(o, sub, rate)

SpecInvoice == InitInvoice /\ [][NextInvoice]_vars

None == [null |-> TRUE, value |-> 0]
Some(v) == [null |-> FALSE, value |-> v]

COFFEE_TYPE_CHOICES == {"cps", "excelso"}
Quantities == {-100, 0, 100, 250, 300}
Threshed == {None} \cup {Some(v) : v \in {0, 100, 200}}

\* The part of Order.save after the order number: original_coffee_type is
\* taken from coffee_type on the first save, then kg_despues_trilla and
\* porcentaje_reduccion_excelso are computed or cleared.  adding is
\* self._state.adding.  The percentage is stored with two decimal places.
Order_save_trilla(self, adding) ==
    LET first == IF adding /\ self.original_coffee_type = ""
                 THEN [self EXCEPT !.original_coffee_type = self.coffee_type]
                 ELSE self
    IN
    IF first.original_coffee_type = "cps" /\ first.coffee_type = "excelso"
    THEN IF first.quantity_kg # 0 /\ ~first.kg_despues_trilla.null
         THEN IF first.quantity_kg > 0
              THEN [first EXCEPT !.porcentaje_reduccion_excelso =
                      Some(quantize((first.quantity_kg - first.kg_despues_trilla.value)
                                       * 10000, first.quantity_kg))]
              ELSE [first EXCEPT !.porcentaje_reduccion_excelso = Some(0)]
         ELSE [first EXCEPT !.kg_despues_trilla = None,
                            !.porcentaje_reduccion_excelso = None]
    ELSE [first EXCEPT !.kg_despues_trilla = None,
                       !.porcentaje_reduccion_excelso = None]

\* An Order instance before its first save, with the fields Order.save reads.
NewTrilla(q, ct, oct, kg) ==
    [exists |-> FALSE, quantity_kg |-> q, coffee_type |-> ct,
     original_coffee_type |-> oct, kg_despues_trilla |-> kg,
     porcentaje_reduccion_excelso |-> None]

InitTrilla ==
    /\ \E q \in Quantities, ct \in COFFEE_TYPE_CHOICES,
          oct \in COFFEE_TYPE_CHOICES \cup {""}, kg \in Threshed :
          orders = [o \in OrderIds |-> NewTrilla(q, ct, oct, kg)]
    /\ company = [c \in Companies |->
          [status |-> "active", suspended_at |-> Null, suspension_reason |-> ""]]
    /\ clients = [c \in ClientIds |-> NoClient]
    /\ toasting = [o \in OrderIds |-> NoToasting]
    /\ production = [o \in OrderIds |-> NoProduction]
    /\ invoice = [o \in OrderIds |-> NoInvoice]
    /\ audit = [o \in OrderIds |-> [a \in AuditActions |-> 0]]
    /\ clock = 1
    /\ last = [kind |-> "none", user |-> NoUser, order |-> Null]
    /\ result = [status |-> "none", appended |-> 0, updated |-> 0]
    /\ inflight = [r \in Reqs |-> Idle]
    /\ objects = [m \in TenantModels |-> original_manager]

\* order.save() of a new instance.
TrillaCreate(o) ==
    /\ ~orders[o].exists
    /\ orders' = [orders EXCEPT ![o] =
            [Order_save_trilla(orders[o], TRUE) EXCEPT !.exists = TRUE]]
    /\ Respond("order_save", NoUser, o, "ok", 0, 0)
    /\ UNCHANGED <<company, clients, toasting, production, invoice, audit, clock, inflight, objects>>

\* order.save() of a stored order after coffee_type and kg_despues_trilla were
\* assigned (the threshing of a CPS lot into excelso).
TrillaUpdate(o, ct, kg) ==
    /\ orders[o].exists
    /\ orders' = [orders EXCEPT ![o] =
            Order_save_trilla([orders[o] EXCEPT !.coffee_type = ct,
                                                !.kg_despues_trilla = kg], FALSE)]
    /\ Respond("order_save", NoUser, o, "ok", 0, 0)
    /\ UNCHANGED <<company, clients, toasting, production, invoice, audit, clock, inflight, objects>>

NextTrilla ==
    \/ \E o \in OrderIds : TrillaCreate(o)
    \/ \E o \in OrderIds, ct \in COFFEE_TYPE_CHOICES, kg \in Threshed : TrillaUpdate(o, ct, kg)

SpecTrilla == InitTrilla /\ [][NextTrilla]_vars

\* The kg_despues_trilla a save finds on the instance: the one of the new
\* instance, or the one the step assigned to the stored order.
Presented(o) ==
    IF ~orders[o].exists THEN {orders[o].kg_despues_trilla} ELSE Threshed

\* C22 as claimed: after a save, if original_coffee_type is cps, coffee_type
\* is excelso and kg_despues_trilla was given, kg_despues_trilla is kept and
\* the percentage is (pre - post) / pre x 100 for pre > 0 and 0 otherwise,
\* pre = 0 included; in every other case both are null.
C22_Claimed ==
    [][\A o \in OrderIds :
          LET t == orders'[o]
              pre == t.quantity_kg
          IN  IF t.original_coffee_type = "cps" /\ t.coffee_type = "excelso"
              THEN \/ \E kg \in Presented(o) :
                        /\ ~kg.null
                        /\ t.kg_despues_trilla = kg
                        /\ t.porcentaje_reduccion_excelso =
                              IF pre > 0
                              THEN Some(quantize((pre - kg.value) * 10000, pre))
                              ELSE Some(0)
                   \/ /\ None \in Presented(o)
                      /\ t.kg_despues_trilla = None
                      /\ t.porcentaje_reduccion_excelso = None
              ELSE /\ t.kg_despues_trilla = None
                   /\ t.porcentaje_reduccion_excelso = None]_vars

ProduccionCreateFails(u, o, fault) ==
    /\ Guards(u, ProduccionRoles) = "pass"
    /\ OrderGet(u, o, "in_production")
    /\ ~production[o].exists
    /\ production' = [production EXCEPT ![o] = [exists |-> TRUE, processed_by |-> u]]
    /\ IF fault = "order_save"
       THEN UNCHANGED <<orders, clock>>
       ELSE /\ clock <= MaxClock
            /\ orders' = [orders EXCEPT ![o] =
                    Order_save([transition(orders[o], "complete_production", clock)
                                   EXCEPT !.produced_by = u])]
            /\ clock' = clock + 1
    /\ Respond("produccion_create", u, o, "storage_error", 0, 0)
    /\ UNCHANGED <<company, clients, toasting, invoice, audit, inflight, objects>>

\* FacturacionCreateView.form_valid when self.order.save() or
\* ActivityLog.objects.create raises: no transaction either, the Invoice saved
\* first stays.
FacturacionCreateFails(u, o, fault) ==
    /\ Guards(u, FacturacionRoles) = "pass"
    /\ OrderGet(u, o, "ready_for_billing")
    /\ ~invoice[o].exists
    /\ invoice' = [invoice EXCEPT ![o] =
            [exists |-> TRUE, company |-> u.company, created_by |-> u]]
    /\ IF fault = "order_save"
       THEN UNCHANGED <<orders, clock>>
       ELSE /\ clock <= MaxClock
            /\ orders' = [orders EXCEPT ![o] =
                    Order_save([transition(orders[o], "bill_order", clock)
                                   EXCEPT !.billed_by = u])]
            /\ clock' = clock + 1
    /\ Respond("facturacion_create", u, o, "storage_error", 0, 0)
    /\ UNCHANGED <<company, clients, toasting, production, audit, inflight, objects>>

\* Orders created and taken through their life cycle by method calls and by
\* the production and billing views, with the database failing at the order
\* save or at the audit insert of these views.
NextFaultApi ==
    \/ \E u \in Principals, c \in ClientIds, valid \in BOOLEAN : ClienteCreate(u, c, valid)
    \/ \E u \in Principals, o \in OrderIds, c \in ClientIds, valid \in BOOLEAN :
          MaquilaCreate(u, o, c, valid)
    \/ \E o \in OrderIds, m \in TransitionMethods : ApiTransition(o, m)
    \/ \E u \in Principals, o \in OrderIds, valid \in BOOLEAN : ProduccionCreate(u, o, valid)
    \/ \E u \in Principals, o \in OrderIds, valid \in BOOLEAN : FacturacionCreate(u, o, valid)
    \/ \E u \in Principals, o \in OrderIds, fault \in Faults :
          ProduccionCreateFails(u, o, fault)
    \/ \E u \in Principals, o \in OrderIds, fault \in Faults :
          FacturacionCreateFails(u, o, fault)

SpecFaultApi == Init /\ [][NextFaultApi]_vars

\* C24 as claimed: in every state the requests leave behind, database
\* failures included, no order in in_production has a ProductionProcess.
C24_Claimed ==
    \A o \in OrderIds :
        ~(orders[o].exists /\ orders[o].state = "in_production" /\ production[o].exists)

\* C25 as claimed: in every state the requests leave behind, database
\* failures included, no order in ready_for_billing has an Invoice.
C25_Claimed ==
    \A o \in OrderIds :
        ~(orders[o].exists /\ orders[o].state = "ready_for_billing" /\ invoice[o].exists)

Received     == {-100, 0, 100, 300}
Processed    == {None, Some(0), Some(50), Some(250), Some(30000)}
Temperatures == {None, Some(180)}
MaxYield     == 99999

NoProcess ==
    [exists |-> FALSE, process_status |-> "received", received_quantity_kg |-> 0,
     processed_quantity_kg |-> None, yield_percentage |-> None,
     final_grain_quality |-> "", current_temperature_celsius |-> None,
     started_at |-> Null, completed_at |-> Null]

\* A yield that is the plain ratio of the two quantities.
percentage_mut(n, d) == IF d > 0 THEN quantize(n * 100, d) ELSE quantize(-n * 100, -d)

\* n / d x 100 of two quantities, to the nearest hundredth of a percent.
percentage(n, d) == IF d > 0 THEN quantize(n * 10000, d) ELSE quantize(-n * 10000, -d)

\* ToastingProcess.save: the yield is computed when the process is completed
\* and processed_quantity_kg is set and not zero.
ToastingProcess_save(self) ==
    IF self.process_status = "completed"
       /\ ~self.processed_quantity_kg.null /\ self.processed_quantity_kg.value # 0
    THEN [self EXCEPT !.yield_percentage =
             Some(percentage(self.processed_quantity_kg.value, self.received_quantity_kg))]
    ELSE self

\* ToastingProcess.start_process, the stored row after the call.
start_process_row(self, now) ==
    IF can_start_toasting(self)
    THEN ToastingProcess_save([self EXCEPT !.process_status = "started", !.started_at = now])
    ELSE self

\* ToastingProcess.update_monitoring, the stored row after the call.
update_monitoring_row(self, temperature) ==
    IF can_monitor_toasting(self)
    THEN ToastingProcess_save([self EXCEPT !.process_status = "monitoring",
                                          !.current_temperature_celsius = temperature])
    ELSE self

\* complete_process raises when it divides None, or divides by a zero
\* received quantity, or the yield does not fit max_digits=5 at the save.
complete_process_raises(self, processed_quantity) ==
    /\ can_complete_toasting(self)
    /\ \/ processed_quantity.null
       \/ self.received_quantity_kg = 0
       \/ percentage(processed_quantity.value, self.received_quantity_kg) > MaxYield
       \/ percentage(processed_quantity.value, self.received_quantity_kg) < -MaxYield

\* ToastingProcess.complete_process, the stored row after a call that does not
\* raise.
complete_process_row(self, processed_quantity, final_quality, now) ==
    IF can_complete_toasting(self)
    THEN ToastingProcess_save(
            [self EXCEPT !.process_status = "completed", !.completed_at = now,
                         !.processed_quantity_kg = processed_quantity,
                         !.final_grain_quality = final_quality,
                         !.yield_percentage =
                            Some(percentage(processed_quantity.value,
                                            self.received_quantity_kg))])
    ELSE self

\* get_or_create(order=maquila, defaults={'received_quantity_kg':
\* maquila.quantity_kg, ...}); quantity is the order's quantity_kg.
get_or_create_row(o, quantity) ==
    IF toasting[o].exists THEN toasting[o]
    ELSE [NoProcess EXCEPT !.exists = TRUE, !.received_quantity_kg = quantity]

\* TostionCreateView.post and form_valid with a valid form, the row written
\* in full.  quantity is the order's quantity_kg, received the form's
\* received_quantity_kg, temperature its current_temperature_celsius,
\* processed its processed_quantity_kg.
TostionPostRow(u, o, step, quantity, received, temperature, processed) ==
    LET g  == Guards(u, TostionRoles)
        tp == get_or_create_row(o, quantity)
        created == [toasting EXCEPT ![o] = tp]
        kind == "tostion_post"
    IN
    IF g # "pass" THEN Reject(kind, u, o, g)
    ELSE IF ~OrderGet(u, o, "in_toasting") THEN Reject(kind, u, o, "not_found")
    ELSE IF step = "completion" /\ ~complete_process_raises(tp, processed)
         THEN /\ clock <= MaxClock
              /\ toasting' = [toasting EXCEPT ![o] =
                    complete_process_row(tp, processed, "good", clock)]
              /\ orders' = [orders EXCEPT ![o] =
                    Order_save([transition(orders[o], "complete_toasting", clock)
                                   EXCEPT !.toasted_by = u])]
              /\ audit' = Logged(o, "toasting_complete")
              /\ clock' = clock + 1
              /\ Respond(kind, u, o, "ok", 1, 0)
              /\ UNCHANGED <<company, clients, production, invoice, inflight, objects>>
    ELSE IF step \in {"reception", "setup", "monitoring"}
         THEN /\ toasting' = [toasting EXCEPT ![o] =
                    CASE step = "reception"  ->
                            ToastingProcess_save([tp EXCEPT !.received_quantity_kg = received,
                                                            !.process_status = "received"])
                      [] step = "setup"      ->
                            ToastingProcess_save(start_process_row(tp, clock))
                      [] step = "monitoring" ->
                            IF ~temperature.null /\ temperature.value # 0
                            THEN update_monitoring_row(tp, temperature) ELSE tp]
              /\ Respond(kind, u, o, "ok", 0, 0)
              /\ UNCHANGED <<company, clients, orders, production, invoice, audit, clock,
                             inflight, objects>>
    ELSE /\ toasting' = created
         /\ Respond(kind, u, o, "error", 0, 0)
         /\ UNCHANGED <<company, clients, orders, production, invoice, audit, clock,
                        inflight, objects>>

\* The users of the runs on the ToastingProcess row.
RowUsers == {User("admin_company", "A", FALSE), User("aux_tostion", "A", FALSE)}

InitRow ==
    /\ toasting = [o \in OrderIds |-> NoProcess]
    /\ company = [c \in Companies |->
          [status |-> "active", suspended_at |-> Null, suspension_reason |-> ""]]
    /\ clients = [c \in ClientIds |-> NoClient]
    /\ orders = [o \in OrderIds |-> NoOrder]
    /\ production = [o \in OrderIds |-> NoProduction]
    /\ invoice = [o \in OrderIds |-> NoInvoice]
    /\ audit = [o \in OrderIds |-> [a \in AuditActions |-> 0]]
    /\ clock = 1
    /\ last = [kind |-> "none", user |-> NoUser, order |-> Null]
    /\ result = [status |-> "none", appended |-> 0, updated |-> 0]
    /\ inflight = [r \in Reqs |-> Idle]
    /\ objects = [m \in TenantModels |-> original_manager]

\* The posts of the wizard with a valid form: each step with the values of
\* the field it reads, the others left empty; quantity is the quantity_kg of
\* the order, read when the post creates the row.
RowPosts ==
    { [step |-> st, quantity |-> q, received |-> r, temperature |-> t, processed |-> p] :
        st \in steps, q \in {0, 300}, r \in Received, t \in Temperatures, p \in Processed }

RowPostsRead ==
    { x \in RowPosts :
        /\ x.step # "reception" => x.received = 100
        /\ x.step # "monitoring" => x.temperature = None
        /\ x.step # "completion" => x.processed = None }

\* An order created and taken into toasting, and the wizard with every step
\* posted at any time.
NextRow ==
    \/ \E u \in RowUsers, c \in ClientIds : ClienteCreate(u, c, TRUE)
    \/ \E u \in RowUsers, o \in OrderIds, c \in ClientIds : MaquilaCreate(u, o, c, TRUE)
    \/ \E u \in RowUsers, o \in OrderIds : StartToasting(u, o)
    \/ \E u \in RowUsers, o \in OrderIds, x \in RowPostsRead :
          TostionPostRow(u, o, x.step, x.quantity, x.received, x.temperature, x.processed)

SpecRow == InitRow /\ [][NextRow]_vars

StartProcessCall(o) ==
    /\ toasting[o].exists
    /\ toasting' = [toasting EXCEPT ![o] = start_process_row(toasting[o], clock)]
    /\ Respond("start_process", NoUser, o, "ok", 0, 0)
    /\ UNCHANGED <<company, clients, orders, production, invoice, audit, clock, inflight, objects>>

UpdateMonitoringCall(o, temperature) ==
    /\ toasting[o].exists
    /\ toasting' = [toasting EXCEPT ![o] = update_monitoring_row(toasting[o], temperature)]
    /\ Respond("update_monitoring", NoUser, o, "ok", 0, 0)
    /\ UNCHANGED <<company, clients, orders, production, invoice, audit, clock, inflight, objects>>

CompleteProcessCall(o, processed) ==
    /\ toasting[o].exists
    /\ IF complete_process_raises(toasting[o], processed)
       THEN /\ Respond("complete_process", NoUser, o, "error", 0, 0)
            /\ UNCHANGED toasting
       ELSE /\ toasting' = [toasting EXCEPT ![o] =
                    complete_process_row(toasting[o], processed, "good", clock)]
            /\ Respond("complete_process", NoUser, o, "ok", 0, 0)
    /\ UNCHANGED <<company, clients, orders, production, invoice, audit, clock, inflight, objects>>

\* The wizard, and the methods of the process called in any order.
NextMethods ==
    \/ NextRow
    \/ \E o \in OrderIds : StartProcessCall(o)
    \/ \E o \in OrderIds, temperature \in Temperatures \ {None} :
          UpdateMonitoringCall(o, temperature)
    \/ \E o \in OrderIds, processed \in Processed : CompleteProcessCall(o, processed)

SpecMethods == InitRow /\ [][NextMethods]_vars

\* C26: start_process moves received to started, update_monitoring moves
\* started or monitoring to monitoring, complete_process moves monitoring to
\* completed (or raises and stores nothing); called in any other sub-state,
\* each leaves the row as it was.
C26_MethodsGuardSubState ==
    [][\A o \in OrderIds :
          LET st == toasting[o].process_status IN
          /\ StartProcessCall(o)
                => IF st = "received" THEN toasting'[o].process_status = "started"
                   ELSE toasting'[o] = toasting[o]
          /\ (\E t \in Temperatures \ {None} : UpdateMonitoringCall(o, t))
                => IF st \in {"started", "monitoring"}
                   THEN toasting'[o].process_status = "monitoring"
                   ELSE toasting'[o] = toasting[o]
          /\ (\E p \in Processed : CompleteProcessCall(o, p))
                => IF st = "monitoring"
                   THEN \/ toasting'[o].process_status = "completed"
                        \/ result'.status = "error" /\ toasting'[o] = toasting[o]
                   ELSE toasting'[o] = toasting[o]]_vars

\* C26 witness: complete_process was called on a process that had only been
\* started, and the process is as it was: started, nothing processed.
C26_Witness ==
    \E o \in OrderIds :
        /\ last = [kind |-> "complete_process", user |-> NoUser, order |-> o]
        /\ result.status = "ok"
        /\ toasting[o].exists
        /\ toasting[o].process_status = "started"
        /\ toasting[o].processed_quantity_kg = None
        /\ toasting[o].completed_at = Null

\* ---------------------------------------------------------------------
\* Order numbers (models.py 422-441).  A number is the string
\* "MAQ-<nit>-<YYYYMMDD>-<NNN>"; it is held here as its base (tenant and
\* date) and its last segment, a sequence of decimal digit characters.
\* The table is a sequence of rows in insertion order.
\* ---------------------------------------------------------------------

MaxRows == 1010

Today == 2

Existing == {0, 990}

RECURSIVE Digits10(_)
Digits10(n) == IF n < 10 THEN <<n>> ELSE Digits10(n \div 10) \o <<n % 10>>

\* f"{new_num:03d}": at least three digits, zero-padded, never truncated.
format_03d(n) ==
    LET ds == Digits10(n)
    IN  IF Len(ds) >= 3 THEN ds ELSE [i \in 1..(3 - Len(ds)) |-> 0] \o ds

\* int(order_number.split('-')[-1])
RECURSIVE int_of(_)
int_of(s) ==
    IF s = <<>> THEN 0
    ELSE int_of(SubSeq(s, 1, Len(s) - 1)) * 10 + s[Len(s)]

\* Ordering of two strings of digit characters, as ORDER BY compares them.
str_lt(a, b) ==
    \/ \E i \in 1..Len(a) :
          /\ i <= Len(b)
          /\ \A j \in 1..(i - 1) : a[j] = b[j]
          /\ a[i] < b[i]
    \/ /\ Len(a) < Len(b)
       /\ \A j \in 1..Len(a) : a[j] = b[j]

base_number(c, today) == <<c, today>>

number_row(c, today, n) ==
    [company |-> c,
     order_number |-> [base |-> base_number(c, today), seq |-> format_03d(n)]]

\* filter(company=..., order_number__startswith=base).order_by('-order_number').first()
\* over rows lo..hi: the index of the row found, 0 when there is none.
\* Of two rows found (0: none), the one ORDER BY -order_number puts first.
first_of(rows, l, r) ==
    IF l = 0 THEN r
    ELSE IF r = 0 THEN l
    ELSE IF str_lt(rows[l].order_number.seq, rows[r].order_number.seq)
         THEN r ELSE l

RECURSIVE last_order(_, _, _, _, _)
last_order(rows, c, base, lo, hi) ==
    IF lo > hi THEN 0
    ELSE IF lo = hi
    THEN IF rows[lo].company = c /\ rows[lo].order_number.base = base
         THEN lo ELSE 0
    ELSE first_of(rows,
                  last_order(rows, c, base, lo, (lo + hi) \div 2),
                  last_order(rows, c, base, (lo + hi) \div 2 + 1, hi))

\* Order.generate_order_number on the strings themselves.
generate_order_number_str(rows, c, today) ==
    LET base == base_number(c, today)
        i == last_order(rows, c, base, 1, Len(rows))
        new_num == IF i # 0 THEN int_of(rows[i].order_number.seq) + 1 ELSE 1
    IN  [base |-> base, seq |-> format_03d(new_num)]

\* Rows of the table that the tenant created on the date.
created_on(rows, c, today) ==
    {i \in 1..Len(rows) : /\ rows[i].company = c
                          /\ rows[i].order_number.base = base_number(c, today)}

InitNumbers ==
    /\ \E n \in Existing, others \in BOOLEAN :
          orders = (IF others
                    THEN <<number_row("A", Today - 1, 1),
                           number_row("A", Today - 1, 2),
                           number_row("B", Today, 1)>>
                    ELSE <<>>)
                   \o [k \in 1..n |-> number_row("A", Today, k)]
    /\ company = [c \in Companies |->
          [status |-> "active", suspended_at |-> Null, suspension_reason |-> ""]]
    /\ clients = [c \in ClientIds |-> NoClient]
    /\ toasting = [o \in OrderIds |-> NoToasting]
    /\ production = [o \in OrderIds |-> NoProduction]
    /\ invoice = [o \in OrderIds |-> NoInvoice]
    /\ audit = [o \in OrderIds |-> [a \in AuditActions |-> 0]]
    /\ clock = Today
    /\ last = [kind |-> "none", company |-> NoCompany, number |-> Null, k |-> 0]
    /\ result = [status |-> "none", appended |-> 0, updated |-> 0]
    /\ inflight = [r \in Reqs |-> Idle]
    /\ objects = [m \in TenantModels |-> original_manager]

\* Order.save on a new row (models.py 394-420): the number is generated,
\* then the INSERT is made; order_number is unique (models.py 271).
OrderSaveNew(c) ==
    /\ Len(orders) < MaxRows
    /\ \E number \in {generate_order_number_str(orders, c, clock)} :
          /\ last' = [kind |-> "order_save", company |-> c, number |-> number,
                      k |-> Cardinality(created_on(orders, c, clock)) + 1]
          /\ IF \E i \in 1..Len(orders) : orders[i].order_number = number
             THEN /\ result' = [status |-> "integrity_error",
                                appended |-> 0, updated |-> 0]
                  /\ UNCHANGED orders
             ELSE /\ result' = [status |-> "ok", appended |-> 1, updated |-> 0]
                  /\ orders' = Append(orders,
                                 [company |-> c, order_number |-> number])
    /\ UNCHANGED <<company, clients, toasting, production, invoice, audit,
                   clock, inflight, objects>>

\* The orders of the run are created by one tenant, one at a time.
NextNumbers == OrderSaveNew("A")

SpecNumbers == InitNumbers /\ [][NextNumbers]_vars

\* C27: when orders are created one after another for one tenant on one
\* date, the k-th gets the sequence number k and a number that no existing
\* order has, for every k, past 999 included.
C27_Claimed ==
    [][OrderSaveNew("A") =>
          /\ int_of(last'.number.seq) = last'.k
          /\ \A i \in 1..Len(orders) :
                orders[i].order_number # last'.number]_vars

\* ---------------------------------------------------------------------
\* Production creation served by several workers (views.py 1100-1151).
\* ---------------------------------------------------------------------

\* An insert that never finds the order taken.
OneToOneTaken_mut(o) == FALSE

\* ProductionProcess.order is a OneToOneField (models.py 733-738): the
\* INSERT of a second row for the order raises IntegrityError.
OneToOneTaken(o) == production[o].exists

\* ProduccionCreateView.post up to form_valid: the guards, the read of the
\* order in in_production, the hasattr test and the form's validation.
BeginProduccionCreate(r, u, o, valid) ==
    LET g == Guards(u, ProduccionRoles) IN
    /\ inflight[r].pc = "idle"
    /\ UNCHANGED objects
    /\ inflight' = [inflight EXCEPT ![r] =
            [pc |-> "produccion_read", user |-> u, order |-> o, copy |-> orders[o],
             status |-> IF g # "pass" THEN g
                        ELSE IF ~OrderGet(u, o, "in_production") THEN "not_found"
                        ELSE IF production[o].exists THEN "already_exists"
                        ELSE IF ~valid THEN "form_invalid"
                        ELSE "ok"]]
    /\ UNCHANGED <<db, last, result>>

\* form_valid: the INSERT of the ProductionProcess, then complete_production
\* and save() on the instance read in post, then the ActivityLog row.
CommitProduccionCreate(r) ==
    LET f == inflight[r]
        o == f.order
        kind == "produccion_create"
    IN
    /\ f.pc = "produccion_read"
    /\ UNCHANGED objects
    /\ inflight' = [inflight EXCEPT ![r] = Idle]
    /\ IF f.status # "ok"
       THEN /\ Respond(kind, f.user, o, f.status, 0, 0)
            /\ UNCHANGED db
       ELSE IF OneToOneTaken(o)
       THEN /\ Respond(kind, f.user, o, "integrity_error", 0, 0)
            /\ UNCHANGED db
       ELSE /\ clock <= MaxClock
            /\ production' = [production EXCEPT ![o] =
                   [exists |-> TRUE, processed_by |-> f.user]]
            /\ orders' = [orders EXCEPT ![o] =
                   Order_save([transition(f.copy, "complete_production", clock)
                                  EXCEPT !.produced_by = f.user])]
            /\ audit' = Logged(o, "production_complete")
            /\ clock' = clock + 1
            /\ Respond(kind, f.user, o, "ok", 1, 0)
            /\ UNCHANGED <<company, clients, toasting, invoice>>

\* The Order methods that bring an order to in_production.
Upstream == {"start_toasting", "complete_toasting", "start_production"}

\* The users of tenant A that pass the production decorator.
ProduccionUsers == {User("admin_company", "A", FALSE), User("aux_produccion", "A", FALSE)}

NextProduccion ==
    \/ \E u \in ProduccionUsers, c \in ClientIds : ClienteCreate(u, c, TRUE)
    \/ \E u \in ProduccionUsers, o \in OrderIds, c \in ClientIds :
          MaquilaCreate(u, o, c, TRUE)
    \/ \E o \in OrderIds, m \in Upstream : ApiTransition(o, m)
    \/ \E u \in ProduccionUsers, o \in OrderIds, valid \in BOOLEAN :
          ProduccionCreate(u, o, valid)
    \/ \E r \in Reqs, u \in ProduccionUsers, o \in OrderIds, valid \in BOOLEAN :
          BeginProduccionCreate(r, u, o, valid)
    \/ \E r \in Reqs : CommitProduccionCreate(r)

SpecProduccion == Init /\ [][NextProduccion]_vars

\* C31: for every sequence and interleaving of production-creation requests
\* on an order, the ProductionProcess row once stored is never stored again
\* or changed, the order leaves in_production for ready_for_billing only in
\* the step that stores the row, and a request that comes to its insert (or
\* is served whole) when the row exists is rejected and changes no table.
C31_ProductionSingleShot ==
    [][\A o \in OrderIds :
         /\ production[o].exists => production'[o] = production[o]
         /\ orders'[o].state # orders[o].state /\ production'[o].exists
               => /\ orders[o].state = "in_production"
                  /\ orders'[o].state = "ready_for_billing"
                  /\ ~production[o].exists
                  /\ result'.status = "ok"
         /\ \A r \in Reqs :
               (CommitProduccionCreate(r) /\ inflight[r].order = o
                   /\ production[o].exists)
               => /\ result'.status \in {"integrity_error", "already_exists",
                                          "not_found", "form_invalid"}
                  /\ UNCHANGED db
         /\ \A u \in ProduccionUsers, valid \in BOOLEAN :
               (ProduccionCreate(u, o, valid) /\ production[o].exists)
               => /\ result'.status \in {"not_found", "already_exists"}
                  /\ UNCHANGED db]_vars

\* Two requests read the order before either wrote; one stored the row and
\* moved the order, the other was refused at its insert.
C31_Witness ==
    \E o \in OrderIds :
        /\ production[o].exists
        /\ orders[o].state = "ready_for_billing"
        /\ last.kind = "produccion_create"
        /\ last.order = o
        /\ result.status = "integrity_error"

\* ---------------------------------------------------------------------
\* The quality controls of a ProductionProcess (models.py 770-772, 794-796).
\* In SpecQuality the production rows carry the three check boxes of
\* ProcesoProduccionForm.
\* ---------------------------------------------------------------------

is_quality_complete(self) ==
    self.weight_check /\ self.packaging_check /\ self.labeling_check

\* ProduccionCreateView.post and form_valid with the check boxes posted: a
\* BooleanField of a ModelForm is not required, so every combination is a
\* valid form.
ProduccionCreateChecked(u, o, valid, weight, packaging, labeling) ==
    LET g == Guards(u, ProduccionRoles)
        kind == "produccion_create"
    IN
    IF g # "pass" THEN Reject(kind, u, o, g)
    ELSE IF ~OrderGet(u, o, "in_production") THEN Reject(kind, u, o, "not_found")
    ELSE IF production[o].exists THEN Reject(kind, u, o, "already_exists")
    ELSE IF ~valid THEN Reject(kind, u, o, "form_invalid")
    ELSE /\ clock <= MaxClock
         /\ production' = [production EXCEPT ![o] =
                [exists |-> TRUE, processed_by |-> u, weight_check |-> weight,
                 packaging_check |-> packaging, labeling_check |-> labeling]]
         /\ orders' = [orders EXCEPT ![o] =
                Order_save([transition(orders[o], "complete_production", clock)
                               EXCEPT !.produced_by = u])]
         /\ audit' = Logged(o, "production_complete")
         /\ clock' = clock + 1
         /\ Respond(kind, u, o, "ok", 1, 0)
         /\ UNCHANGED <<company, clients, toasting, invoice, inflight, objects>>

NextQuality ==
    \/ \E u \in ProduccionUsers, c \in ClientIds : ClienteCreate(u, c, TRUE)
    \/ \E u \in ProduccionUsers, o \in OrderIds, c \in ClientIds :
          MaquilaCreate(u, o, c, TRUE)
    \/ \E o \in OrderIds, m \in TransitionMethods \ {"complete_production"} :
          ApiTransition(o, m)
    \/ \E u \in Principals, o \in OrderIds, valid, weight, packaging, labeling \in BOOLEAN :
          ProduccionCreateChecked(u, o, valid, weight, packaging, labeling)
    \/ \E u \in ProduccionUsers, o \in OrderIds : FacturacionCreate(u, o, TRUE)

SpecQuality == Init /\ [][NextQuality]_vars

\* The users production creation lets through for order o.
ProduccionAdmitted(u, o) ==
    /\ Guards(u, ProduccionRoles) = "pass"
    /\ OrderGet(u, o, "in_production")
    /\ ~production[o].exists

\* C32: a production creation with a valid form, by a user the view admits,
\* on an order in in_production without a ProductionProcess, moves the order
\* to ready_for_billing and stores the row for every combination of
\* weight_check, packaging_check and labeling_check; no later transition
\* reads the checks.
C32_QualityChecksDoNotGate ==
    [][\A o \in OrderIds, u \in Principals, weight, packaging, labeling \in BOOLEAN :
          (ProduccionAdmitted(u, o)
             /\ ProduccionCreateChecked(u, o, TRUE, weight, packaging, labeling))
          => /\ result'.status = "ok"
             /\ orders'[o].state = "ready_for_billing"
             /\ production'[o].exists
             /\ production'[o].weight_check = weight
             /\ production'[o].packaging_check = packaging
             /\ production'[o].labeling_check = labeling
             /\ is_quality_complete(production'[o])
                   <=> (weight /\ packaging /\ labeling)]_vars

\* An order was delivered with none of its quality controls passed.
C32_Witness ==
    \E o \in OrderIds :
        /\ production[o].exists
        /\ ~production[o].weight_check
        /\ ~production[o].packaging_check
        /\ ~production[o].labeling_check
        /\ ~is_quality_complete(production[o])
        /\ orders[o].state = "delivered"

\* ---------------------------------------------------------------------
\* CompanyFilterMiddleware (middleware.py 147-211), placed after
\* TenantMiddleware, which sets request.company for a user that has a
\* company.  Model.objects is an attribute of the model class, shared by
\* the requests a process serves at the same time.
\* ---------------------------------------------------------------------

ModelOrder == <<"Client", "Order">>

\* Requests are taken while fewer than MaxWrappers wrappers are left on a model.
MaxWrappers == 2

\* CompanyFilteredManager(company, original_manager)
CompanyFilteredManager(c, original) == <<c>> \o original

\* isinstance(model.objects, CompanyFilteredManager)
isCompanyFiltered(manager) == manager # original_manager

\* CompanyFilteredManager.get_queryset, as the companies whose rows the
\* queryset returns: the original manager's queryset (itself filtered when
\* the original is a wrapper), filtered by self.company.
RECURSIVE get_queryset(_)
get_queryset(manager) ==
    IF ~isCompanyFiltered(manager) THEN Companies
    ELSE get_queryset(Tail(manager)) \cap {Head(manager)}

\* The manager's methods a caller uses.
ManagerMethods == {"get_queryset", "filter"}

\* CompanyFilteredManager.__getattr__: every attribute the wrapper does not
\* define is looked up on the original manager, whose methods build their
\* queryset from the original manager's own get_queryset.
RECURSIVE ManagerCall(_, _)
ManagerCall(manager, name) ==
    IF ~isCompanyFiltered(manager) THEN Companies
    ELSE IF name = "get_queryset" THEN get_queryset(manager)
    ELSE ManagerCall(Tail(manager), name)

\* The users whose requests meet: one of each tenant, and a superuser that
\* has a company (for one that has none the middleware does nothing).
FilterUsers ==
    {User("aux_registro", "A", FALSE), User("admin_company", "B", FALSE),
     User("super_admin", "A", TRUE)}

Serving(pc, u, model, seen) ==
    [pc |-> pc, user |-> u, order |-> model, copy |-> seen, status |-> "none"]

\* The position after the model at index i of a loop over the models.
AfterModel(f, i, again, done) ==
    IF i < Len(ModelOrder) THEN Serving(again, f.user, i + 1, original_manager)
    ELSE done

\* __call__ up to the loop that patches: hasattr(request, 'company') and
\* not request.user.is_superuser.
FilterCall(r, u) ==
    /\ inflight[r].pc = "idle"
    /\ \A m \in TenantModels : Len(objects[m]) < MaxWrappers
    /\ inflight' = [inflight EXCEPT ![r] =
          IF HasCompany(u) /\ ~u.is_superuser
          THEN Serving("patch_read", u, 1, original_manager)
          ELSE Serving("view", u, Null, original_manager)]
    /\ UNCHANGED <<db, last, result, objects>>

\* original_manager = model.objects
PatchRead(r) ==
    LET f == inflight[r] IN
    /\ f.pc = "patch_read"
    /\ inflight' = [inflight EXCEPT ![r] =
          Serving("patch_write", f.user, f.order, objects[ModelOrder[f.order]])]
    /\ UNCHANGED <<db, last, result, objects>>

\* model.objects = CompanyFilteredManager(request.company, original_manager)
PatchWrite(r) ==
    LET f == inflight[r] IN
    /\ f.pc = "patch_write"
    /\ objects' = [objects EXCEPT ![ModelOrder[f.order]] =
                      CompanyFilteredManager(f.user.company, f.copy)]
    /\ inflight' = [inflight EXCEPT ![r] =
          AfterModel(f, f.order, "patch_read",
                     Serving("view", f.user, Null, original_manager))]
    /\ UNCHANGED <<db, last, result>>

\* A query the view makes through Model.objects.
ViewQuery(r, m, name) ==
    LET f == inflight[r] IN
    /\ f.pc = "view"
    /\ last' = [kind |-> "query", user |-> f.user, order |-> Null]
    /\ result' = [status |-> "ok", appended |-> 0, updated |-> 0,
                  companies |-> ManagerCall(objects[m], name)]
    /\ UNCHANGED <<db, inflight, objects>>

\* get_response returns; the restoring loop runs if hasattr(request, 'company').
ViewReturns(r) ==
    LET f == inflight[r] IN
    /\ f.pc = "view"
    /\ inflight' = [inflight EXCEPT ![r] =
          IF HasCompany(f.user)
          THEN Serving("restore_test", f.user, 1, original_manager)
          ELSE Idle]
    /\ UNCHANGED <<db, last, result, objects>>

\* isinstance(model.objects, CompanyFilteredManager)
RestoreTest(r) ==
    LET f == inflight[r] IN
    /\ f.pc = "restore_test"
    /\ inflight' = [inflight EXCEPT ![r] =
          IF isCompanyFiltered(objects[ModelOrder[f.order]])
          THEN Serving("restore_read", f.user, f.order, original_manager)
          ELSE AfterModel(f, f.order, "restore_test", Idle)]
    /\ UNCHANGED <<db, last, result, objects>>

\* model.objects.original_manager: an AttributeError when the manager read
\* now is the original one, which ends the request.
RestoreRead(r) ==
    LET f == inflight[r]
        manager == objects[ModelOrder[f.order]]
    IN
    /\ f.pc = "restore_read"
    /\ IF isCompanyFiltered(manager)
       THEN /\ inflight' = [inflight EXCEPT ![r] =
                  Serving("restore_write", f.user, f.order, Tail(manager))]
            /\ UNCHANGED <<last, result>>
       ELSE /\ inflight' = [inflight EXCEPT ![r] = Idle]
            /\ last' = [kind |-> "restore", user |-> f.user, order |-> Null]
            /\ result' = [status |-> "attribute_error", appended |-> 0,
                          updated |-> 0, companies |-> {}]
    /\ UNCHANGED <<db, objects>>

\* model.objects = (the value read)
RestoreWrite(r) ==
    LET f == inflight[r] IN
    /\ f.pc = "restore_write"
    /\ objects' = [objects EXCEPT ![ModelOrder[f.order]] = f.copy]
    /\ inflight' = [inflight EXCEPT ![r] = AfterModel(f, f.order, "restore_test", Idle)]
    /\ UNCHANGED <<db, last, result>>

NextFilter ==
    \/ \E r \in Reqs, u \in FilterUsers : FilterCall(r, u)
    \/ \E r \in Reqs : PatchRead(r)
    \/ \E r \in Reqs : PatchWrite(r)
    \/ \E r \in Reqs, m \in TenantModels, name \in ManagerMethods : ViewQuery(r, m, name)
    \/ \E r \in Reqs : ViewReturns(r)
    \/ \E r \in Reqs : RestoreTest(r)
    \/ \E r \in Reqs : RestoreRead(r)
    \/ \E r \in Reqs : RestoreWrite(r)

SpecFilter == Init /\ [][NextFilter]_vars

\* The requests of users that are not superusers, between the patch and the
\* restore.
Patched ==
    { r \in Reqs : inflight[r].pc = "view" /\ HasCompany(inflight[r].user)
                   /\ ~inflight[r].user.is_superuser }

\* C33 as claimed: while a request of a user of tenant T that is not a
\* superuser is between the patch and the restore, what Model.objects of every
\* tenant-scoped model returns is of T only, whatever other requests are in
\* progress; and when no request is in progress every Model.objects is the
\* original manager.
C33_Claimed ==
    /\ \A r \in Patched, m \in TenantModels, name \in ManagerMethods :
          ManagerCall(objects[m], name) \subseteq {inflight[r].user.company}
    /\ (\A r \in Reqs : inflight[r].pc = "idle")
          => \A m \in TenantModels : objects[m] = original_manager

\* ---------------------------------------------------------------------
\* C34 as claimed: the admin action mark_as_cancelled, run on a selected
\* order, leaves the order stored as cancelled when its state was neither
\* cancelled nor delivered, leaves it unchanged otherwise, and reports as
\* many orders as changed their stored state.
C34_Claimed ==
    [][\A u \in Principals, o \in OrderIds :
          (mark_as_cancelled(u, o) /\ result'.status = "ok") =>
             /\ IF orders[o].state \notin {"cancelled", "delivered"}
                THEN orders'[o].state = "cancelled"
                ELSE orders'[o] = orders[o]
             /\ result'.updated =
                   Cardinality({x \in OrderIds : orders'[x].state # orders[x].state})]_vars

\* ---------------------------------------------------------------------
\* The setup step of the toasting wizard (forms.py 578-597, views.py
\* 972-980).  In SpecSetup the ToastingProcess rows carry the three technical
\* parameters, in whole degrees and minutes.
\* ---------------------------------------------------------------------

InitialTemperatures == {-5, 0, 99, 100, 200, 201}
TargetTemperatures  == {-5, 0, 149, 150, 250, 251}
EstimatedTimes      == {-1, 0, 4, 5, 60, 61}

\* The row with the model's defaults (models.py 584-598).
NoSetupProcess ==
    [exists |-> FALSE, process_status |-> "received", received_quantity_kg |-> 0,
     processed_quantity_kg |-> None, yield_percentage |-> None,
     final_grain_quality |-> "", current_temperature_celsius |-> None,
     started_at |-> Null, completed_at |-> Null,
     initial_temperature_celsius |-> 150, target_temperature_celsius |-> 200,
     estimated_time_minutes |-> 15]

\* clean_initial_temperature_celsius: 'if temperature and (...)' raises; a
\* zero is falsy.  TRUE when the value is accepted.
clean_initial_temperature_celsius(temperature) ==
    ~(temperature # 0 /\ (temperature < 100 \/ temperature > 200))

clean_target_temperature_celsius(temperature) ==
    ~(temperature # 0 /\ (temperature < 150 \/ temperature > 250))

\* estimated_time_minutes is a PositiveIntegerField: its form field has
\* min_value=0, checked before clean_estimated_time_minutes.
clean_estimated_time_minutes(time_minutes) ==
    /\ time_minutes >= 0
    /\ ~(time_minutes # 0 /\ (time_minutes < 5 \/ time_minutes > 60))

\* form.is_valid() for a post whose other fields are filled.
setup_is_valid(initial, objective, minutes) ==
    /\ clean_initial_temperature_celsius(initial)
    /\ clean_target_temperature_celsius(objective)
    /\ clean_estimated_time_minutes(minutes)

get_or_create_setup(o) ==
    IF toasting[o].exists THEN toasting[o]
    ELSE [NoSetupProcess EXCEPT !.exists = TRUE]

\* TostionCreateView.post and form_valid for current_step = 'setup': the
\* parameters are assigned, start_process() is called, the row is saved.
TostionSetupPost(u, o, initial, objective, minutes) ==
    LET g  == Guards(u, TostionRoles)
        tp == get_or_create_setup(o)
        kind == "tostion_post"
    IN
    IF g # "pass" THEN Reject(kind, u, o, g)
    ELSE IF ~OrderGet(u, o, "in_toasting") THEN Reject(kind, u, o, "not_found")
    ELSE /\ IF setup_is_valid(initial, objective, minutes)
            THEN /\ toasting' = [toasting EXCEPT ![o] =
                       ToastingProcess_save(
                          [start_process_row(
                              [tp EXCEPT !.initial_temperature_celsius = initial,
                                         !.target_temperature_celsius = objective,
                                         !.estimated_time_minutes = minutes], clock)
                           EXCEPT !.initial_temperature_celsius = initial,
                                  !.target_temperature_celsius = objective,
                                  !.estimated_time_minutes = minutes])]
                 /\ Respond(kind, u, o, "ok", 0, 0)
            ELSE /\ toasting' = [toasting EXCEPT ![o] = tp]
                 /\ Respond(kind, u, o, "form_invalid", 0, 0)
         /\ UNCHANGED <<company, clients, orders, production, invoice, audit, clock,
                        inflight, objects>>

InitSetup ==
    /\ toasting = [o \in OrderIds |-> NoSetupProcess]
    /\ company = [c \in Companies |->
          [status |-> "active", suspended_at |-> Null, suspension_reason |-> ""]]
    /\ clients = [c \in ClientIds |-> NoClient]
    /\ orders = [o \in OrderIds |-> NoOrder]
    /\ production = [o \in OrderIds |-> NoProduction]
    /\ invoice = [o \in OrderIds |-> NoInvoice]
    /\ audit = [o \in OrderIds |-> [a \in AuditActions |-> 0]]
    /\ clock = 1
    /\ last = [kind |-> "none", user |-> NoUser, order |-> Null]
    /\ result = [status |-> "none", appended |-> 0, updated |-> 0]
    /\ inflight = [r \in Reqs |-> Idle]
    /\ objects = [m \in TenantModels |-> original_manager]

NextSetup ==
    \/ \E u \in RowUsers, c \in ClientIds : ClienteCreate(u, c, TRUE)
    \/ \E u \in RowUsers, o \in OrderIds, c \in ClientIds : MaquilaCreate(u, o, c, TRUE)
    \/ \E u \in RowUsers, o \in OrderIds : StartToasting(u, o)
    \/ \E u \in RowUsers, o \in OrderIds, initial \in InitialTemperatures,
          objective \in TargetTemperatures, minutes \in EstimatedTimes :
          TostionSetupPost(u, o, initial, objective, minutes)

SpecSetup == InitSetup /\ [][NextSetup]_vars

\* C35 as claimed: a setup post on an order in toasting, by a user the view
\* admits, is rejected with a validation error and leaves the ToastingProcess
\* row as it was whenever the initial temperature is outside [100, 200], the
\* target temperature outside [150, 250] or the estimated time outside
\* [5, 60], zero and negative values included.
C35_Claimed ==
    [][\A u \in RowUsers, o \in OrderIds, initial \in InitialTemperatures,
          objective \in TargetTemperatures, minutes \in EstimatedTimes :
          (/\ Guards(u, TostionRoles) = "pass"
           /\ OrderGet(u, o, "in_toasting")
           /\ \/ initial \notin 100..200
              \/ objective \notin 150..250
              \/ minutes \notin 5..60
           /\ TostionSetupPost(u, o, initial, objective, minutes))
          => /\ result'.status = "form_invalid"
             /\ toasting'[o] = get_or_create_setup(o)]_vars

\* ---------------------------------------------------------------------
\* The stage timestamps against the order's history.
\* ---------------------------------------------------------------------

\* The states after registered in lifecycle order, and how many of them an
\* order in a state has been through.
Lifecycle == <<"in_toasting", "toasting_complete", "in_production",
               "ready_for_billing", "billed", "delivered">>

StagesPassed(st) ==
    IF st = "registered" THEN 0
    ELSE CHOOSE i \in 1..Len(Lifecycle) : Lifecycle[i] = st

\* The timestamps of the first n stages.
StampsUpTo(n) == { StampOf(Lifecycle[i]) : i \in 1..n }

\* The timestamps an order has.
StampsSet(ord) == { f \in TimeFields : ord[f] # Null }

\* C36: each forward transition sets its own timestamp, to the time of the
\* call, and no other; cancel_order sets none; so in every state the
\* timestamps an order has are exactly those of the stages it has been
\* through, in lifecycle order and with increasing times, and a cancelled
\* order has those of the stages it had been through when it was cancelled.
C36_StampsFollowHistory ==
    /\ [](\A o \in OrderIds :
            orders[o].exists =>
               /\ IF orders[o].state # "cancelled"
                  THEN StampsSet(orders[o]) = StampsUpTo(StagesPassed(orders[o].state))
                  ELSE \E n \in 0..(Len(Lifecycle) - 1) :
                          StampsSet(orders[o]) = StampsUpTo(n)
               /\ \A i, j \in 1..Len(Lifecycle) :
                     (i < j /\ orders[o][StampOf(Lifecycle[j])] # Null)
                     => orders[o][StampOf(Lifecycle[i])]
                           < orders[o][StampOf(Lifecycle[j])])
    /\ [][\A o \in OrderIds :
            (orders[o].exists /\ orders'[o].state # orders[o].state) =>
               IF orders'[o].state = "cancelled"
               THEN \A f \in TimeFields : orders'[o][f] = orders[o][f]
               ELSE /\ StagesPassed(orders'[o].state) = StagesPassed(orders[o].state) + 1
                    /\ orders'[o][StampOf(orders'[o].state)] = clock
                    /\ \A f \in TimeFields \ {StampOf(orders'[o].state)} :
                          orders'[o][f] = orders[o][f]]_vars

\* An order cancelled in in_production: it has the three timestamps of the
\* stages it went through and none of the later ones.
C36_Witness ==
    \E o \in OrderIds :
        /\ orders[o].exists
        /\ orders[o].state = "cancelled"
        /\ last.kind = "cancel_order"
        /\ StampsSet(orders[o]) = StampsUpTo(3)

\* ---------------------------------------------------------------------
\* can_transition_to against the @transition declarations.
\* ---------------------------------------------------------------------

\* Some FSM method is declared with s among its sources and t as its target.
Declared(s, t) == \E m \in TransitionMethods : s \in source(m) /\ target(m) = t

\* C37: for every state s and target t (a state, or a string that is none),
\* can_transition_to(t) on an order in s is true exactly when some transition
\* method is declared from s to t; and a transition method called on an order
\* succeeds exactly when can_transition_to accepts its target.
C37_TableAgreesWithTransitions ==
    /\ [](/\ \A s \in STATE_CHOICES, t \in STATE_CHOICES \cup {"unknown"} :
                can_transition_to([state |-> s], t) <=> Declared(s, t)
          /\ \A o \in OrderIds, t \in STATE_CHOICES :
                orders[o].exists =>
                   (can_transition_to(orders[o], t) <=> Declared(orders[o].state, t)))
    /\ [][(/\ last'.kind \in TransitionMethods
           /\ last'.user = NoUser
           /\ last'.order \in OrderIds
           /\ orders[last'.order].exists)
          => (result'.status = "ok"
                <=> can_transition_to(orders[last'.order], target(last'.kind)))]_vars

\* cancel_order was called on a delivered order and refused, as the table has
\* it.
C37_Witness ==
    \E o \in OrderIds :
        /\ orders[o].exists
        /\ orders[o].state = "delivered"
        /\ last.kind = "cancel_order"
        /\ last.order = o
        /\ result.status = "transition_not_allowed"
        /\ ~can_transition_to(orders[o], "cancelled")

\* ---------------------------------------------------------------------
\* An order driven forward through the request handlers alone.
\* ---------------------------------------------------------------------

\* The users that drive the order: tenant A's administrator and assistants.
DriveUsers == { User(r, "A", FALSE) : r \in Roles \ {"super_admin"} }

\* The requests of the handlers in urls.py that write, with any form.
NextDrive ==
    \/ \E u \in DriveUsers, c \in ClientIds, valid \in BOOLEAN : ClienteCreate(u, c, valid)
    \/ \E u \in DriveUsers, o \in OrderIds, c \in ClientIds, valid \in BOOLEAN :
          MaquilaCreate(u, o, c, valid)
    \/ \E u \in DriveUsers, o \in OrderIds : StartToasting(u, o)
    \/ \E u \in DriveUsers, o \in OrderIds : TostionGet(u, o)
    \/ \E u \in DriveUsers, o \in OrderIds, p \in TostionPosts :
          TostionPost(u, o, p.step, p.form # "invalid", p.form = "filled", p.form = "filled")
    \/ \E u \in DriveUsers, o \in OrderIds, valid \in BOOLEAN : ProduccionCreate(u, o, valid)
    \/ \E u \in DriveUsers, o \in OrderIds, valid \in BOOLEAN : FacturacionCreate(u, o, valid)

\* A request that moves order o to its next stage, and one that moves its
\* toasting process to the sub-state sub.
StageForward(o) == NextDrive /\ orders'[o].state # orders[o].state

SubForward(o, sub) ==
    NextDrive /\ toasting'[o].process_status = sub /\ toasting[o].process_status # sub

\* The users keep at it: whatever forward request is possible again and
\* again is made in the end.
SpecDrive ==
    /\ Init
    /\ [][NextDrive]_vars
    /\ \A o \in OrderIds :
          /\ SF_vars(StageForward(o))
          /\ SF_vars(SubForward(o, "started"))
          /\ SF_vars(SubForward(o, "monitoring"))

\* C38 as claimed: with the request handlers alone an order in registered is
\* driven along every forward edge up to delivered; no state before delivered
\* is a dead end.
C38_Claimed ==
    \A o \in OrderIds :
        (orders[o].exists /\ orders[o].state = "registered")
           ~> (orders[o].state = "delivered")

====
